---------------------------- MODULE Spec2Model ----------------------------
(***************************************************************************)
(* Graph construction for article separation                               *)
(* (citlab_article_separation/gnn/input/feature_generation.py).            *)
(*                                                                         *)
(* Conventions of the model                                                *)
(*   - a point is a pair <<x, y>> of integers, a polygon (points_list) a   *)
(*     sequence of points;                                                 *)
(*   - a float is an exact rational <<n, d>> in lowest terms (d > 0), or   *)
(*     <<s, 0>> for the IEEE results of a division by zero;                *)
(*   - an element of a python feature list is a record                     *)
(*     [nested, vals]: a number (nested = FALSE, one value) or a list      *)
(*     that was appended as one element (nested = TRUE);                   *)
(*   - python's None for a list-valued name is [isNone |-> TRUE, ...].     *)
(***************************************************************************)
EXTENDS Integers, Sequences, FiniteSets, TLC

----------------------------------------------------------------------------
(* Numbers *)

Abs(x) == IF x < 0 THEN -x ELSE x

Sign(x) == IF x < 0 THEN -1 ELSE IF x > 0 THEN 1 ELSE 0

Min2(a, b) == IF a <= b THEN a ELSE b

Max2(a, b) == IF a >= b THEN a ELSE b

RECURSIVE GCD(_, _)
GCD(a, b) == IF b = 0 THEN a ELSE GCD(b, a % b)

\* python float division n / d (numpy scalars: a zero divisor gives inf or nan)
Frac(n, d) ==
    IF d = 0 THEN <<Sign(n), 0>>
    ELSE LET g == GCD(Abs(n), Abs(d))
             s == Sign(d)
         IN  <<(s * n) \div g, (s * d) \div g>>

\* quotient of two floats
FracDiv(a, b) == Frac(a[1] * b[2], a[2] * b[1])

\* a <= b for finite floats
FracLeq(a, b) == a[1] * b[2] <= b[1] * a[2]

F0 == Frac(0, 1)

F1 == Frac(1, 1)

FHalf == Frac(1, 2)

\* float(bool)
Float(b) == IF b THEN F1 ELSE F0

Scalar(f) == [nested |-> FALSE, vals |-> <<f>>]

Nested(fs) == [nested |-> TRUE, vals |-> fs]

\* list.extend(list of floats)
Scalars(fs) == [k \in 1..Len(fs) |-> Scalar(fs[k])]

SetMin(S) == CHOOSE m \in S : \A x \in S : m <= x

SetMax(S) == CHOOSE m \in S : \A x \in S : m >= x

Range(s) == {s[k] : k \in 1..Len(s)}

\* the greatest np.int32 (the point arrays are built with dtype=np.int32)
Int32Max == 2147483647

\* a + b of two np.int32 scalars: the sum modulo 2^32, in -2^31 .. 2^31 - 1
Int32Add(a, b) ==
    IF a > 0 /\ b > 0 /\ a > Int32Max - b
    THEN (a - Int32Max - 1) + (b - Int32Max - 1)
    ELSE IF a < 0 /\ b < 0 /\ a < (-Int32Max - 1) - b
    THEN (a + Int32Max + 1) + (b + Int32Max + 1)
    ELSE a + b

----------------------------------------------------------------------------
(* Geometry kernel *)

\* get_bounding_box: <<min_x, max_x, min_y, max_y>>
get_bounding_box(points) ==
    LET xs == {points[k][1] : k \in 1..Len(points)}
        ys == {points[k][2] : k \in 1..Len(points)}
    IN  <<SetMin(xs), SetMax(xs), SetMin(ys), SetMax(ys)>>

Cross(o, a, b) == (a[1] - o[1]) * (b[2] - o[2]) - (a[2] - o[2]) * (b[1] - o[1])

\* r lies in the bounding box of the segment p-q
InBox(p, q, r) ==
    /\ Min2(p[1], q[1]) <= r[1] /\ r[1] <= Max2(p[1], q[1])
    /\ Min2(p[2], q[2]) <= r[2] /\ r[2] <= Max2(p[2], q[2])

\* shapely: LineString([p, q]).intersects(LineString([r, s])), closed segments
SegmentsIntersect(p, q, r, s) ==
    LET d1 == Cross(r, s, p)
        d2 == Cross(r, s, q)
        d3 == Cross(p, q, r)
        d4 == Cross(p, q, s)
    IN  \/ /\ Sign(d1) * Sign(d2) < 0
           /\ Sign(d3) * Sign(d4) < 0
        \/ d1 = 0 /\ InBox(r, s, p)
        \/ d2 = 0 /\ InBox(r, s, q)
        \/ d3 = 0 /\ InBox(p, q, r)
        \/ d4 = 0 /\ InBox(p, q, s)

\* coordinates are doubled wherever a bounding-box center (a half-integer) meets
\* integer points
Dbl(p) == <<2 * p[1], 2 * p[2]>>

\* the point list after line_poly_intersection ran on it: "optionally close polygon"
ClosePolygon(polygon) ==
    IF polygon[1] # polygon[Len(polygon)]
    THEN Append(polygon, polygon[1])
    ELSE polygon

\* the loop bound taken before the polygon is closed (a stale length)
NumSegmentsStale(polygon) == Len(polygon) - 1

\* number of polygon segments the loop of line_poly_intersection visits
NumSegments(polygon) == Len(ClosePolygon(polygon)) - 1

\* line_poly_intersection; line is a segment <<p, q>> in doubled coordinates
line_poly_intersection(line, polygon) ==
    LET closed == ClosePolygon(polygon)
    IN  \E i \in 1..NumSegments(polygon) :
            SegmentsIntersect(line[1], line[2], Dbl(closed[i]), Dbl(closed[i + 1]))

\* line_in_bounding_box; line.bounds of a doubled segment against a pixel box
line_in_bounding_box(line, min_x, max_x, min_y, max_y) ==
    LET x1 == Min2(line[1][1], line[2][1])
        x2 == Max2(line[1][1], line[2][1])
        y1 == Min2(line[1][2], line[2][2])
        y2 == Max2(line[1][2], line[2][2])
    IN  x1 > 2 * min_x /\ x2 < 2 * max_x /\ y1 > 2 * min_y /\ y2 < 2 * max_y

----------------------------------------------------------------------------
(* Separator classifier *)

\* program constant: "if ratio < 5"
RatioThreshold == 5

\* ratio check of the separator's bounding box: float(height) / float(width) < 5
RatioIsHorizontal(bb) ==
    LET width == Max2(bb[2] - bb[1], 1)
        height == Max2(bb[4] - bb[3], 1)
    IN  height < RatioThreshold * width

\* "separator_region == 'vertical'": an object compared with a string
SeparatorRegionEqualsString(separator_region, str) == FALSE

\* the segment between the bounding-box centers of two point lists, doubled
tr_segment(points_a, points_b) ==
    LET bb_a == get_bounding_box(points_a)
        bb_b == get_bounding_box(points_b)
    IN  <<<<Int32Add(bb_a[1], bb_a[2]), Int32Add(bb_a[3], bb_a[4])>>,
          <<Int32Add(bb_b[1], bb_b[2]), Int32Add(bb_b[3], bb_b[4])>>>>

\* the prior test of get_edge_separator_feature_line against the corner points
\* s1, s2, s3, s4 of the separator's bounding box, in the order the code lists them
PriorTest(line, bb) ==
    \/ line_poly_intersection(line, << <<bb[1], bb[3]>>, <<bb[2], bb[3]>>,
                                       <<bb[1], bb[4]>>, <<bb[2], bb[4]>> >>)
    \/ line_in_bounding_box(line, bb[1], bb[2], bb[3], bb[4])

\* the flags a hit sets (lines 294-305): by the orientation tag, else by the ratio
HitFlags(separator_region, bb) ==
    IF separator_region.orientation = "horizontal" THEN <<TRUE, FALSE>>
    ELSE IF SeparatorRegionEqualsString(separator_region, "vertical") THEN <<FALSE, TRUE>>
    ELSE IF RatioIsHorizontal(bb) THEN <<TRUE, FALSE>>
    ELSE <<FALSE, TRUE>>

\* the loop of get_edge_separator_feature_line from separator k on: the two flags
\* and the separator list, whose point lists the precise test closes in place
RECURSIVE LineScan(_, _, _, _, _)

\* the end of one pass: "if horizontally_separated and vertically_separated: break"
LineNext(line, seps, k, hit, h, v) ==
    IF hit /\ h /\ v
    THEN [h |-> h, v |-> v, seps |-> seps]
    ELSE LineScan(line, seps, k + 1, h, v)

\* the pass for separator k once its precise test is known
LineFlags(line, seps, k, h, v, hit, flags) ==
    LineNext(line, seps, k, hit, h \/ (hit /\ flags[1]), v \/ (hit /\ flags[2]))

\* the pass for separator k once its prior test is known; the precise test runs,
\* and closes the separator's point list, only after a prior test that succeeds
LinePass(line, seps, k, h, v, bb, prior) ==
    LineFlags(line,
              IF prior THEN [seps EXCEPT ![k].points = ClosePolygon(@)] ELSE seps,
              k, h, v,
              prior /\ line_poly_intersection(line, seps[k].points),
              HitFlags(seps[k], bb))

LineBox(line, seps, k, h, v, bb) == LinePass(line, seps, k, h, v, bb, PriorTest(line, bb))

LineScan(line, seps, k, h, v) ==
    IF k > Len(seps) THEN [h |-> h, v |-> v, seps |-> seps]
    ELSE LineBox(line, seps, k, h, v, get_bounding_box(seps[k].points))

LineResult(r) == [feature |-> <<Float(r.h), Float(r.v)>>, seps |-> r.seps]

\* get_edge_separator_feature_line: [feature, seps (the list after the call)]
get_edge_separator_feature_line(text_region_a, text_region_b, seps) ==
    LineResult(LineScan(tr_segment(text_region_a.points, text_region_b.points),
                        seps, 1, FALSE, FALSE))

\* a variant: only the arrangement "A - S - B" counts as horizontally aligned
VerticallySeparatedOneWay(bb_a, bb_b, bb_sep) ==
    LET mean2 == Int32Add(bb_sep[1], bb_sep[2])
    IN  /\ 2 * bb_a[2] <= mean2 /\ mean2 <= 2 * bb_b[1]
        /\ \/ bb_a[4] >= bb_sep[3] /\ bb_a[3] <= bb_sep[4]
           \/ bb_b[4] >= bb_sep[3] /\ bb_b[3] <= bb_sep[4]

\* a variant: the separator's midpoint strictly between the two regions
VerticallySeparatedStrict(bb_a, bb_b, bb_sep) ==
    LET mean2 == Int32Add(bb_sep[1], bb_sep[2])
    IN  /\ \/ 2 * bb_a[2] < mean2 /\ mean2 < 2 * bb_b[1]
           \/ 2 * bb_b[2] < mean2 /\ mean2 < 2 * bb_a[1]
        /\ \/ bb_a[4] >= bb_sep[3] /\ bb_a[3] <= bb_sep[4]
           \/ bb_b[4] >= bb_sep[3] /\ bb_b[3] <= bb_sep[4]

\* is_vertically_separated (mean_x_sep, the half of an np.int32 sum, compared
\* in doubled coordinates)
is_vertically_separated(bb_a, bb_b, bb_sep) ==
    LET mean2 == Int32Add(bb_sep[1], bb_sep[2])
    IN  /\ \/ 2 * bb_a[2] <= mean2 /\ mean2 <= 2 * bb_b[1]
           \/ 2 * bb_b[2] <= mean2 /\ mean2 <= 2 * bb_a[1]
        /\ \/ bb_a[4] >= bb_sep[3] /\ bb_a[3] <= bb_sep[4]
           \/ bb_b[4] >= bb_sep[3] /\ bb_b[3] <= bb_sep[4]

\* is_horizontally_separated
is_horizontally_separated(bb_a, bb_b, bb_sep) ==
    /\ \/ bb_a[3] <= bb_sep[3] /\ bb_sep[4] <= bb_b[4]
       \/ bb_b[3] <= bb_sep[3] /\ bb_sep[4] <= bb_a[4]
    /\ ~ \/ bb_a[2] <= bb_sep[1] /\ bb_b[2] <= bb_sep[1]
         \/ bb_a[1] >= bb_sep[2] /\ bb_b[1] >= bb_sep[2]

\* the orientation get_edge_separator_feature_bb works with
BBOrientation(s, bb_sep) ==
    IF s.orientation = "None"
    THEN (IF RatioIsHorizontal(bb_sep) THEN "horizontal" ELSE "vertical")
    ELSE s.orientation

\* the loop of get_edge_separator_feature_bb from separator k on
RECURSIVE BBScan(_, _, _, _, _, _)

\* a variant: the scan stops as soon as one flag is set
BBNextStopsOnFirstFlag(bb_a, bb_b, seps, k, h, v) ==
    IF h \/ v THEN <<h, v>> ELSE BBScan(bb_a, bb_b, seps, k + 1, h, v)

BBNext(bb_a, bb_b, seps, k, h, v) ==
    IF h /\ v THEN <<h, v>> ELSE BBScan(bb_a, bb_b, seps, k + 1, h, v)

\* the rule checks for separator k (lines 379-384)
BBPass(bb_a, bb_b, seps, k, h, v, bb_sep, vertical) ==
    BBNext(bb_a, bb_b, seps, k,
           h \/ (~vertical /\ is_horizontally_separated(bb_a, bb_b, bb_sep)),
           v \/ (vertical /\ is_vertically_separated(bb_a, bb_b, bb_sep)))

BBBox(bb_a, bb_b, seps, k, h, v, bb_sep) ==
    BBPass(bb_a, bb_b, seps, k, h, v, bb_sep, BBOrientation(seps[k], bb_sep) = "vertical")

BBScan(bb_a, bb_b, seps, k, h, v) ==
    IF k > Len(seps) THEN <<h, v>>
    ELSE BBBox(bb_a, bb_b, seps, k, h, v, get_bounding_box(seps[k].points))

BBResult(r, seps) == [feature |-> <<Float(r[1]), Float(r[2])>>, seps |-> seps]

\* get_edge_separator_feature_bb: it reads the point lists and changes nothing
get_edge_separator_feature_bb(text_region_a, text_region_b, seps) ==
    BBResult(BBScan(get_bounding_box(text_region_a.points),
                    get_bounding_box(text_region_b.points), seps, 1, FALSE, FALSE), seps)

----------------------------------------------------------------------------
(* Node feature blocks *)

\* get_text_region_geometric_features on a point list: the sizes are differences
\* of floats, the centers sums of the np.int32 bounds, "(min_x + max_x) / (2 * norm_x)"
GeometricBlock(points, norm_x, norm_y) ==
    LET bb == get_bounding_box(points)
    IN  << Frac(bb[2] - bb[1], norm_x), Frac(bb[4] - bb[3], norm_y),
           Frac(Int32Add(bb[1], bb[2]), 2 * norm_x),
           Frac(Int32Add(bb[3], bb[4]), 2 * norm_y) >>

get_text_region_geometric_features(text_region, norm_x, norm_y) ==
    GeometricBlock(text_region.points, norm_x, norm_y)

\* get_text_region_baseline_features: text_lines[0] and text_lines[-1]
get_text_region_baseline_features(text_region, norm_x, norm_y) ==
    LET lines == text_region.text_lines
    IN  GeometricBlock(lines[1].baseline, norm_x, norm_y)
          \o GeometricBlock(lines[Len(lines)].baseline, norm_x, norm_y)

\* all([not line.text for line in text_region.text_lines])
AllLinesEmpty(text_region) ==
    \A k \in 1..Len(text_region.text_lines) : text_region.text_lines[k].text = ""

\* ids of the lines with text, in line order
TextLineIds(text_region) ==
    LET withText == SelectSeq(text_region.text_lines, LAMBDA l : l.text # "")
    IN  [k \in 1..Len(withText) |-> withText[k].id]

\* np.max over a non-empty list of floats
FracMax(fs) == CHOOSE m \in Range(fs) : \A x \in Range(fs) : FracLeq(x, m)

\* the else branch of the two text features: a table lookup per line with text
\* (KeyError for an id the table lacks), np.max (ValueError on an empty list), / norm
MaxOverLines(text_region, table, norm) ==
    LET ids == TextLineIds(text_region)
    IN  IF \E k \in 1..Len(ids) : ids[k] \notin DOMAIN table
        THEN [raised |-> "KeyError", feature |-> <<>>]
        ELSE IF Len(ids) = 0
        THEN [raised |-> "ValueError", feature |-> <<>>]
        ELSE [raised |-> "None",
              feature |-> <<FracDiv(FracMax([k \in 1..Len(ids) |-> table[ids[k]]]), norm)>>]

\* a variant: the zero branch for empty regions is missing
StrokeWidthNoZeroBranch(text_region, textline_stroke_widths, norm) ==
    MaxOverLines(text_region, textline_stroke_widths, norm)

\* get_text_region_stroke_width_feature
get_text_region_stroke_width_feature(text_region, textline_stroke_widths, norm) ==
    IF AllLinesEmpty(text_region)
    THEN [raised |-> "None", feature |-> <<F0>>]
    ELSE MaxOverLines(text_region, textline_stroke_widths, norm)

\* get_text_region_text_height_feature
get_text_region_text_height_feature(text_region, textline_heights, norm) ==
    IF AllLinesEmpty(text_region)
    THEN [raised |-> "None", feature |-> <<F0>>]
    ELSE MaxOverLines(text_region, textline_heights, norm)

\* str.lower() on the region types of the model
Lower(str) == IF str = "Heading" THEN "heading" ELSE str

\* a variant: nothing is added for a region that is no heading
HeadingFeatureOnlyForHeadings(text_region) ==
    IF Lower(text_region.region_type) = "heading" THEN <<F1>> ELSE <<>>

\* get_text_region_heading_feature
get_text_region_heading_feature(text_region) ==
    <<Float(Lower(text_region.region_type) = "heading")>>

----------------------------------------------------------------------------
(* Topology builder *)

\* np.delete(rows, del_indices, axis=0) with 0-based indices
RECURSIVE NpDelete(_, _)
NpDelete(rows, del_indices) ==
    IF Len(rows) = 0 THEN <<>>
    ELSE LET front == NpDelete(SubSeq(rows, 1, Len(rows) - 1), del_indices)
         IN  IF (Len(rows) - 1) \in del_indices
             THEN front
             ELSE Append(front, rows[Len(rows)])

\* a variant: np.arange(num_nodes) * num_nodes, the first entry of every row
DelIndicesRowStart(num_nodes) == {i * num_nodes : i \in 0..(num_nodes - 1)}

\* del_indices = np.arange(num_nodes) * (num_nodes + 1)
DelIndices(num_nodes) == {i * (num_nodes + 1) : i \in 0..(num_nodes - 1)}

\* fully_connected_edges: stack of the transposed and the tiled index matrix,
\* reshaped to num_nodes^2 rows <<i, j>>, minus the rows of del_indices
fully_connected_edges(num_nodes) ==
    LET node_indices == [r \in 1..num_nodes |-> [c \in 1..num_nodes |-> c - 1]]
        node_indices_t == [r \in 1..num_nodes |-> [c \in 1..num_nodes |-> node_indices[c][r]]]
        stacked == [k \in 1..(num_nodes * num_nodes) |->
                      LET r == ((k - 1) \div num_nodes) + 1
                          c == ((k - 1) % num_nodes) + 1
                      IN  <<node_indices_t[r][c], node_indices[r][c]>>]
    IN  NpDelete(stacked, DelIndices(num_nodes))

\* program constant: round_base(node_positions, base=50)
RoundingBase == 50

\* round_base on a doubled coordinate c2 (the position is c2 / 2): the nearest
\* multiple of the base, a tie going to the even multiple (numpy's round)
round_base(c2) ==
    LET q == c2 \div (2 * RoundingBase)
        r == c2 % (2 * RoundingBase)
    IN  IF r < RoundingBase \/ (r = RoundingBase /\ q % 2 = 0)
        THEN RoundingBase * q
        ELSE RoundingBase * (q + 1)

\* scipy's Delaunay raises QhullError on a point set without a triangle in it
\* (all points on one line: "Delaunay input has the same x-coords")
QhullFails(positions) ==
    \A i, j, k \in 1..Len(positions) : Cross(positions[i], positions[j], positions[k]) = 0

\* a variant: only the pairs from a vertex to the neighbours after it
RECURSIVE NeighbourPairsForward(_, _, _)
NeighbourPairsForward(neighbors, v, num_nodes) ==
    IF v >= num_nodes THEN <<>>
    ELSE LET later == SelectSeq(neighbors[v + 1], LAMBDA n : n > v)
         IN  [k \in 1..Len(later) |-> <<v, later[k]>>]
               \o NeighbourPairsForward(neighbors, v + 1, num_nodes)

\* the loop of delaunay_edges over delaunay.vertex_neighbor_vertices: for every
\* vertex v, in ascending order, the pairs <<v, neighbour>> in the library's order
RECURSIVE NeighbourPairs(_, _, _)
NeighbourPairs(neighbors, v, num_nodes) ==
    IF v >= num_nodes THEN <<>>
    ELSE [k \in 1..Len(neighbors[v + 1]) |-> <<v, neighbors[v + 1][k]>>]
           \o NeighbourPairs(neighbors, v + 1, num_nodes)

\* a variant: no second attempt on the unrounded positions
DelaunayEdgesNoRetry(num_nodes, node_positions, tri) ==
    LET node_positions_smooth ==
            [k \in 1..Len(node_positions) |->
                <<round_base(node_positions[k][1]), round_base(node_positions[k][2])>>]
    IN  IF ~QhullFails(node_positions_smooth)
        THEN [raised |-> "None", attempts |-> <<"smooth">>,
              edges |-> NeighbourPairs(tri.smooth, 0, num_nodes)]
        ELSE [raised |-> "QhullError", attempts |-> <<"smooth">>, edges |-> <<>>]

\* delaunay_edges; node_positions are doubled centers, tri is what the library
\* answers for the rounded (tri.smooth) and for the unrounded (tri.raw) positions.
\* The result names the triangulations attempted and the error that leaves the call
delaunay_edges(num_nodes, node_positions, tri) ==
    LET node_positions_smooth ==
            [k \in 1..Len(node_positions) |->
                <<round_base(node_positions[k][1]), round_base(node_positions[k][2])>>]
    IN  IF ~QhullFails(node_positions_smooth)
        THEN [raised |-> "None", attempts |-> <<"smooth">>,
              edges |-> NeighbourPairs(tri.smooth, 0, num_nodes)]
        ELSE IF ~QhullFails(node_positions)
        THEN [raised |-> "None", attempts |-> <<"smooth", "raw">>,
              edges |-> NeighbourPairs(tri.raw, 0, num_nodes)]
        ELSE [raised |-> "QhullError", attempts |-> <<"smooth", "raw">>, edges |-> <<>>]

----------------------------------------------------------------------------
(* Region discard *)

\* program constant: "bounding_box.width < 10 or bounding_box.height < 10"
MinBoxSize == 10

\* "not tr.text_lines or all([text_line.text == '' ...])"
HasNoText(tr) == AllLinesEmpty(tr)

\* a variant: "width <= 10 or height <= 10"
TooSmallInclusive(tr) ==
    LET bb == get_bounding_box(tr.points)
    IN  bb[2] - bb[1] <= MinBoxSize \/ bb[4] - bb[3] <= MinBoxSize

TooSmall(tr) ==
    LET bb == get_bounding_box(tr.points)
    IN  bb[2] - bb[1] < MinBoxSize \/ bb[4] - bb[3] < MinBoxSize

\* ids collected in text_lines_to_remove: the lines of the regions discarded as too
\* small, and only when a non-empty line list was passed in
TextLinesToRemove(trs, text_lines) ==
    IF Len(text_lines) = 0 THEN {}
    ELSE UNION { {trs[k].text_lines[m].id : m \in 1..Len(trs[k].text_lines)} :
                   k \in {k \in 1..Len(trs) : ~HasNoText(trs[k]) /\ TooSmall(trs[k])} }

\* discard_text_regions_and_lines
discard_text_regions_and_lines(trs, text_lines) ==
    [text_regions |-> SelectSeq(trs, LAMBDA tr : ~HasNoText(tr) /\ ~TooSmall(tr)),
     text_lines |-> SelectSeq(text_lines,
                        LAMBDA l : l.id \notin TextLinesToRemove(trs, text_lines))]

\* a variant: "if num_nodes < 1"
TooFewNodesBelowOne(num_nodes) == num_nodes < 1

\* "if num_nodes <= 1" of build_input_and_target
TooFewNodes(num_nodes) == num_nodes <= 1

----------------------------------------------------------------------------
(* External feature blocks.  A table is [entries, hasDefault, default]; a value  *)
(* of a table is [isList, vals]: a json list of numbers or a single json number. *)

\* a variant: the node chain ends in the edge chain's 0.5
NodeFallbackHalf == <<Scalar(FHalf)>>

\* the hardcoded value of the node chain: node_feature.extend([0.0])
NodeFallback == <<Scalar(F0)>>

\* the hardcoded value of the edge chains: edge_feature.extend([0.5])
EdgeFallback == <<Scalar(FHalf)>>

\* list.extend(value): a TypeError for a value that is not a list
Extend(value) ==
    IF value.isList
    THEN [raised |-> "None", block |-> Scalars(value.vals)]
    ELSE [raised |-> "TypeError", block |-> <<>>]

\* list.extend([value]): the value becomes one element
ExtendWrapped(value) ==
    [raised |-> "None",
     block |-> IF value.isList THEN <<Nested(value.vals)>> ELSE <<Scalar(value.vals[1])>>]

\* the node chain for one source that has 'node_features' (lines 714-724)
NodeExternalBlock(table, id) ==
    IF id \in DOMAIN table.entries THEN Extend(table.entries[id])
    ELSE IF table.hasDefault THEN ExtendWrapped(table.default)
    ELSE [raised |-> "None", block |-> NodeFallback]

\* the edge chain for one source that has 'edge_features' (lines 779-789); the
\* first extend is inside "except (KeyError, TypeError)", the second is not
EdgeExternalBlock(table, id_a, id_b) ==
    IF <<id_a, id_b>> \in DOMAIN table.entries /\ table.entries[<<id_a, id_b>>].isList
    THEN Extend(table.entries[<<id_a, id_b>>])
    ELSE IF table.hasDefault THEN Extend(table.default)
    ELSE [raised |-> "None", block |-> EdgeFallback]

\* the text block similarity chain (lines 759-770): only KeyError is caught
SimilarityBlock(table, id_a, id_b) ==
    IF <<id_a, id_b>> \in DOMAIN table.entries THEN Extend(table.entries[<<id_a, id_b>>])
    ELSE IF table.hasDefault THEN Extend(table.default)
    ELSE [raised |-> "None", block |-> EdgeFallback]

\* the loop "for ext in external_data" from source k on, for one node;
\* a source without the page's key or without 'node_features' adds nothing
RECURSIVE NodeExternalBlocks(_, _, _, _)
NodeExternalBlocks(external_data, page_name, id, k) ==
    IF k > Len(external_data) THEN [raised |-> "None", block |-> <<>>]
    ELSE
      LET ext == external_data[k]
          skip == page_name \notin DOMAIN ext \/ ~ext[page_name].has_node_features
          this == IF skip THEN [raised |-> "None", block |-> <<>>]
                  ELSE NodeExternalBlock(ext[page_name].node_features, id)
          rest == NodeExternalBlocks(external_data, page_name, id, k + 1)
      IN  IF this.raised # "None" THEN this
          ELSE [raised |-> rest.raised, block |-> this.block \o rest.block]

\* the same loop for one edge
RECURSIVE EdgeExternalBlocks(_, _, _, _, _)
EdgeExternalBlocks(external_data, page_name, id_a, id_b, k) ==
    IF k > Len(external_data) THEN [raised |-> "None", block |-> <<>>]
    ELSE
      LET ext == external_data[k]
          skip == page_name \notin DOMAIN ext \/ ~ext[page_name].has_edge_features
          this == IF skip THEN [raised |-> "None", block |-> <<>>]
                  ELSE EdgeExternalBlock(ext[page_name].edge_features, id_a, id_b)
          rest == EdgeExternalBlocks(external_data, page_name, id_a, id_b, k + 1)
      IN  IF this.raised # "None" THEN this
          ELSE [raised |-> rest.raised, block |-> this.block \o rest.block]

----------------------------------------------------------------------------
(* Assembly of the feature matrices and of the ground truth *)

\* the first error of a sequence of results, "None" without one
FirstRaised(results) ==
    IF \A k \in 1..Len(results) : results[k].raised = "None" THEN "None"
    ELSE results[CHOOSE k \in 1..Len(results) :
                    /\ results[k].raised # "None"
                    /\ \A m \in 1..(k - 1) : results[m].raised = "None"].raised

\* one pass of the loop "for text_region in text_regions" (lines 692-726)
NodeFeature(text_region, norm_x, norm_y, stroke_widths, heights, sw_max, th_max, external_data, page_name) ==
    LET sw == get_text_region_stroke_width_feature(text_region, stroke_widths, sw_max)
        th == get_text_region_text_height_feature(text_region, heights, th_max)
        ex == NodeExternalBlocks(external_data, page_name, text_region.id, 1)
    IN  [raised |-> FirstRaised(<<sw, th, ex>>),
         row |-> Scalars(get_text_region_geometric_features(text_region, norm_x, norm_y)
                           \o get_text_region_baseline_features(text_region, norm_x, norm_y)
                           \o sw.feature \o th.feature
                           \o get_text_region_heading_feature(text_region))
                   \o ex.block]

\* np.array(rows, dtype=np.float32) succeeds: equal widths, numbers only
IsMatrix(rows) ==
    /\ \A k \in 1..Len(rows) : Len(rows[k]) = Len(rows[1])
    /\ \A k \in 1..Len(rows) : \A c \in 1..Len(rows[k]) : ~rows[k][c].nested

\* node_centers = node_features[:, 2:4] * [norm_x, norm_y], doubled
NodeCenters(node_features, norm_x, norm_y) ==
    [k \in 1..Len(node_features) |->
        LET cx == node_features[k][3].vals[1]
            cy == node_features[k][4].vals[1]
        IN  <<(2 * norm_x * cx[1]) \div cx[2], (2 * norm_y * cy[1]) \div cy[2]>>]

\* a variant: the ambiguous case keeps the whole list
EffectiveIdKeepsList(tr_article_ids) == tr_article_ids

\* the effective article id of a region (lines 828-836): the first id of a list of
\* more than one id, the entry of article_dict as it is otherwise
EffectiveId(tr_article_ids) ==
    IF tr_article_ids.isList /\ Len(tr_article_ids.ids) > 1
    THEN [isList |-> FALSE, ids |-> <<tr_article_ids.ids[1]>>]
    ELSE tr_article_ids

tr_gt_article_ids(trs, article_dict) ==
    [k \in 1..Len(trs) |-> EffectiveId(article_dict[trs[k].id])]

\* a variant: every list counts as ambiguous, also a list of one id
NumAmbiguousAnyList(trs, article_dict) ==
    Cardinality({k \in 1..Len(trs) : article_dict[trs[k].id].isList})

\* num_tr_ambiguous
NumAmbiguous(trs, article_dict) ==
    Cardinality({k \in 1..Len(trs) :
        article_dict[trs[k].id].isList /\ Len(article_dict[trs[k].id].ids) > 1})

\* "if i_id == j_id"
SameArticle(i_id, j_id) == i_id = j_id

\* a variant: the identity pairs are left out
SameArticleOffDiagonal(gt_ids, i, j) == i # j /\ SameArticle(gt_ids[i + 1], gt_ids[j + 1])

\* a variant: a pair is related only from the lower index to the higher
RelatedForward(gt_ids, i, j) == i <= j /\ SameArticle(gt_ids[i + 1], gt_ids[j + 1])

\* the condition under which the double loop appends [1, i, j]
Related(gt_ids, i, j) == SameArticle(gt_ids[i + 1], gt_ids[j + 1])

\* the double loop (lines 839-842) from the pair n-th in row-major order on
RECURSIVE GtLoop(_, _)
GtLoop(gt_ids, n) ==
    LET num == Len(gt_ids)
        i == n \div num
        j == n % num
    IN  IF num = 0 \/ n >= num * num THEN <<>>
        ELSE (IF Related(gt_ids, i, j) THEN << <<1, i, j>> >> ELSE <<>>)
               \o GtLoop(gt_ids, n + 1)

\* gt_relations
BuildGtRelations(trs, article_dict) == GtLoop(tr_gt_article_ids(trs, article_dict), 0)

\* "if separator_regions:" for None, [] and a non-empty list
Truthy(separator_regions) == ~separator_regions.isNone /\ Len(separator_regions.list) > 0

\* the classifier the 'separators' option selects
Classify(text_region_a, text_region_b, seps, separators) ==
    IF separators = "line"
    THEN get_edge_separator_feature_line(text_region_a, text_region_b, seps)
    ELSE get_edge_separator_feature_bb(text_region_a, text_region_b, seps)

Classified(separator_regions, r) ==
    [feature |-> r.feature,
     separator_regions |-> [separator_regions EXCEPT !.list = r.seps],
     calls |-> 1]

\* a variant: the classifier runs on whatever list there is
SeparatorBlockAlways(text_region_a, text_region_b, separator_regions, separators) ==
    Classified(separator_regions,
               Classify(text_region_a, text_region_b, separator_regions.list, separators))

\* the separator block of one edge (lines 751-757): the feature, the separator
\* list after it, and the number of classifier calls made
SeparatorBlock(text_region_a, text_region_b, separator_regions, separators) ==
    IF Truthy(separator_regions)
    THEN Classified(separator_regions,
                    Classify(text_region_a, text_region_b, separator_regions.list,
                             separators))
    ELSE [feature |-> <<F0, F0>>, separator_regions |-> separator_regions, calls |-> 0]

\* the similarity block of one edge: "if tb_sim_dict"
SimilarityBlockOf(tb_sim_dict, id_a, id_b) ==
    IF tb_sim_dict.isNone THEN [raised |-> "None", block |-> <<>>]
    ELSE SimilarityBlock(tb_sim_dict.table, id_a, id_b)

\* the loop "for i in range(num_interacting_nodes)" (lines 746-791) from edge k on.
\* cfg holds what the loop reads and does not change: text_regions, separators,
\* tb_sim_dict ([isNone, table]), external_data, page_name
RECURSIVE EdgeLoop(_, _, _, _, _, _)

\* the end of one pass: the edge's row is appended unless a block raised
EdgeRow(cfg, edges, k, rows, calls, sep, sim, ex, err) ==
    IF err # "None"
    THEN [raised |-> err, edge_features |-> rows,
          separator_regions |-> sep.separator_regions, calls |-> calls + sep.calls]
    ELSE EdgeLoop(cfg, edges, k + 1, sep.separator_regions,
                  Append(rows, Scalars(sep.feature) \o sim.block \o ex.block),
                  calls + sep.calls)

EdgeBlocks(cfg, edges, k, rows, calls, sep, sim, ex) ==
    EdgeRow(cfg, edges, k, rows, calls, sep, sim, ex, FirstRaised(<<sim, ex>>))

\* one pass for the regions of edge k
EdgePass(cfg, edges, k, separator_regions, rows, calls, text_region_a, text_region_b) ==
    EdgeBlocks(cfg, edges, k, rows, calls,
               SeparatorBlock(text_region_a, text_region_b, separator_regions,
                              cfg.separators),
               SimilarityBlockOf(cfg.tb_sim_dict, text_region_a.id, text_region_b.id),
               EdgeExternalBlocks(cfg.external_data, cfg.page_name,
                                  text_region_a.id, text_region_b.id, 1))

\* a variant: the regions of an edge are taken target first
EdgeLoopTargetFirst(cfg, edges, k, separator_regions, rows, calls) ==
    IF k > Len(edges)
    THEN [raised |-> "None", edge_features |-> rows,
          separator_regions |-> separator_regions, calls |-> calls]
    ELSE EdgePass(cfg, edges, k, separator_regions, rows, calls,
                  cfg.text_regions[edges[k][2] + 1], cfg.text_regions[edges[k][1] + 1])

EdgeLoop(cfg, edges, k, separator_regions, rows, calls) ==
    IF k > Len(edges)
    THEN [raised |-> "None", edge_features |-> rows,
          separator_regions |-> separator_regions, calls |-> calls]
    ELSE EdgePass(cfg, edges, k, separator_regions, rows, calls,
                  cfg.text_regions[edges[k][1] + 1], cfg.text_regions[edges[k][2] + 1])

\* a variant: the fallback to 'fully' stops one node early
UseFullyBelowThree(interaction, num_nodes) == interaction = "fully" \/ num_nodes < 3

\* the branch "if interaction == 'fully' or num_nodes < 4"
UseFully(interaction, num_nodes) == interaction = "fully" \/ num_nodes < 4

\* interacting nodes (lines 728-733): the edge list, the triangulations attempted
\* and the error that leaves the function
BuildTopology(interaction, num_nodes, node_features, norm_x, norm_y, tri) ==
    IF UseFully(interaction, num_nodes)
    THEN [raised |-> "None", attempts |-> <<>>, edges |-> fully_connected_edges(num_nodes)]
    ELSE IF ~IsMatrix(node_features)
    THEN [raised |-> "ValueError", attempts |-> <<>>, edges |-> <<>>]
    ELSE delaunay_edges(num_nodes, NodeCenters(node_features, norm_x, norm_y), tri)

----------------------------------------------------------------------------
(* Visual region builder *)

LexLess(p, q) == p[1] < q[1] \/ (p[1] = q[1] /\ p[2] < q[2])

\* sorted(set(points))
RECURSIVE SortedPoints(_)
SortedPoints(S) ==
    IF S = {} THEN <<>>
    ELSE LET m == CHOOSE p \in S : \A q \in S \ {p} : LexLess(p, q)
         IN  <<m>> \o SortedPoints(S \ {m})

\* "while len(chain) >= 2 and cross(chain[-2], chain[-1], p) <= 0: chain.pop()"
RECURSIVE PopWhile(_, _)
PopWhile(chain, p) ==
    IF Len(chain) >= 2 /\ Cross(chain[Len(chain) - 1], chain[Len(chain)], p) <= 0
    THEN PopWhile(SubSeq(chain, 1, Len(chain) - 1), p)
    ELSE chain

\* one half of the monotone chain over the points pts[k..]
RECURSIVE HalfHull(_, _, _)
HalfHull(pts, k, chain) ==
    IF k > Len(pts) THEN chain
    ELSE HalfHull(pts, k + 1, Append(PopWhile(chain, pts[k]), pts[k]))

Reverse(seq) == [k \in 1..Len(seq) |-> seq[Len(seq) + 1 - k]]

\* convex_hull of the geometry library (Andrew's monotone chain): the hull's
\* vertices counter-clockwise from the lexicographically smallest point
convex_hull(points) ==
    LET pts == SortedPoints(Range(points))
        lower == HalfHull(pts, 1, <<>>)
        upper == HalfHull(Reverse(pts), 1, <<>>)
    IN  IF Len(pts) <= 1 THEN pts
        ELSE SubSeq(lower, 1, Len(lower) - 1) \o SubSeq(upper, 1, Len(upper) - 1)

\* bounding_box of the geometry library: the four corners of the bounding box
bounding_box(points) ==
    LET bb == get_bounding_box(points)
    IN  << <<bb[1], bb[3]>>, <<bb[2], bb[3]>>, <<bb[2], bb[4]>>, <<bb[1], bb[4]>> >>

\* get_node_visual_regions
get_node_visual_regions(text_region) == bounding_box(text_region.points)

\* get_edge_visual_regions
get_edge_visual_regions(text_region_a, text_region_b) ==
    convex_hull(text_region_a.points \o text_region_b.points)

\* a variant: the slots after the hull repeat the hull's last point
PaddedRowRepeatingLast(hull, width) ==
    [c \in 1..width |-> IF c <= Len(hull) THEN hull[c] ELSE hull[Len(hull)]]

\* the row of visual_regions_edges_array for one hull: np.zeros of the maximal
\* point count, the hull written over its first len(hull) points
PaddedRow(hull, width) ==
    [c \in 1..width |-> IF c <= Len(hull) THEN hull[c] ELSE <<0, 0>>]

\* visual regions for edges (lines 803-820): [array, num_points]
BuildVisualRegionsEdges(trs, edges) ==
    LET hulls == [k \in 1..Len(edges) |->
                    get_edge_visual_regions(trs[edges[k][1] + 1], trs[edges[k][2] + 1])]
        num_points == [k \in 1..Len(edges) |-> Len(hulls[k])]
        width == SetMax(Range(num_points))
    IN  [array |-> [k \in 1..Len(edges) |-> PaddedRow(hulls[k], width)],
         num_points |-> num_points]

----------------------------------------------------------------------------
(* State *)

VARIABLES
    page_paths,              \* generate_feature_jsons: the pages of the batch, each
                             \* with what its collaborators answer for it
    interaction,             \* 'fully' or 'delaunay'
    separators,              \* 'line' or 'bb'
    visual_regions,          \* build visual regions
    json_data,               \* the external feature sources (external_data)
    sim_feat_extractor,      \* a TextblockSimilarity extractor is set up
    pc,                      \* the statement the run is at
    page_idx,                \* position of page_path in page_paths (from 1)
    skipped_pages,           \* names of the pages skipped so far
    outputs,                 \* the out_dict of every json file written so far
    raised,                  \* the exception that left the run, "None" without one
    text_regions,            \* build_input_and_target: the surviving text regions
    text_lines,
    separator_regions,       \* [isNone, list]
    textline_stroke_widths,
    textline_heights,
    sw_max,                  \* page-wide maxima used as norms
    th_max,
    node_features,
    interacting_nodes,
    edge_features,
    visual_regions_nodes,
    visual_regions_edges,    \* [array, num_points]
    gt_relations,
    num_nodes,               \* -1 stands for the None of the all-None result
    num_tr_ambiguous,
    steps,                   \* the steps of build_input_and_target done for this page
    delaunay_attempts,       \* the triangulations attempted for this page
    classifier_calls,        \* calls of a separator classifier for this page
    returned                 \* what the last direct call of a function returned

batch_vars == <<page_paths, interaction, separators, visual_regions, json_data,
                sim_feat_extractor>>

run_vars == <<page_idx, skipped_pages, outputs, raised>>

page_vars == <<text_regions, text_lines, separator_regions, textline_stroke_widths,
               textline_heights, sw_max, th_max, node_features, interacting_nodes, edge_features,
               visual_regions_nodes, visual_regions_edges, gt_relations, num_nodes,
               num_tr_ambiguous, steps, delaunay_attempts, classifier_calls>>

vars == <<batch_vars, run_vars, page_vars, pc, returned>>

page_path == page_paths[page_idx]

NoneList == [isNone |-> TRUE, list |-> <<>>]

NoTable == [x \in {} |-> F0]

NoVisual == [array |-> <<>>, num_points |-> <<>>]

\* no function was called directly
NoCall == [fn |-> "None", i |-> 0, j |-> 0, raised |-> "None", feature |-> <<>>]

\* the locals of build_input_and_target before the function has run
FreshPage ==
    /\ text_regions = <<>>
    /\ text_lines = <<>>
    /\ separator_regions = NoneList
    /\ textline_stroke_widths = NoTable
    /\ textline_heights = NoTable
    /\ sw_max = F0
    /\ th_max = F0
    /\ node_features = <<>>
    /\ interacting_nodes = <<>>
    /\ edge_features = <<>>
    /\ visual_regions_nodes = <<>>
    /\ visual_regions_edges = NoVisual
    /\ gt_relations = <<>>
    /\ num_nodes = -1
    /\ num_tr_ambiguous = 0
    /\ steps = <<>>
    /\ delaunay_attempts = <<>>
    /\ classifier_calls = 0

----------------------------------------------------------------------------
(* build_input_and_target, one action per stage of the function *)

\* an exception leaves build_input_and_target and, uncaught in
\* generate_feature_jsons, the whole run
Raise(exception) ==
    /\ raised' = exception
    /\ pc' = "raised"

\* "return None, None, ..., None"
ReturnNone ==
    /\ num_nodes' = -1
    /\ pc' = "write"

\* lines 666-673: load page data, "text_regions = regions['TextRegion']"
LoadPage ==
    /\ pc = "load"
    /\ page_idx <= Len(page_paths)
    /\ separator_regions' = NoneList
    /\ textline_stroke_widths' = NoTable
    /\ textline_heights' = NoTable
    /\ sw_max' = F0
    /\ th_max' = F0
    /\ node_features' = <<>>
    /\ interacting_nodes' = <<>>
    /\ edge_features' = <<>>
    /\ visual_regions_nodes' = <<>>
    /\ visual_regions_edges' = NoVisual
    /\ gt_relations' = <<>>
    /\ num_tr_ambiguous' = 0
    /\ delaunay_attempts' = <<>>
    /\ classifier_calls' = 0
    /\ steps' = <<"load">>
    /\ text_lines' = page_path.text_lines
    /\ IF page_path.regions.TextRegion.present
       THEN /\ text_regions' = page_path.regions.TextRegion.list
            /\ num_nodes' = -1
            /\ pc' = "discard"
       ELSE /\ text_regions' = <<>>
            /\ ReturnNone
    /\ UNCHANGED <<batch_vars, returned, run_vars>>

\* lines 675-682: discard regions and lines, "if num_nodes <= 1"
Discard ==
    /\ pc = "discard"
    /\ LET d == discard_text_regions_and_lines(text_regions, text_lines)
       IN  /\ text_regions' = d.text_regions
           /\ text_lines' = d.text_lines
           /\ IF TooFewNodes(Len(d.text_regions))
              THEN ReturnNone
              ELSE /\ num_nodes' = Len(d.text_regions)
                   /\ pc' = "stroke"
    /\ steps' = Append(steps, "discard")
    /\ UNCHANGED <<batch_vars, returned, run_vars, separator_regions, textline_stroke_widths,
                   textline_heights, sw_max, th_max, node_features, interacting_nodes,
                   edge_features, visual_regions_nodes, visual_regions_edges,
                   gt_relations, num_tr_ambiguous, delaunay_attempts, classifier_calls>>

\* the values of a table in the order of the lines
TableValues(table, lines) == [k \in 1..Len(lines) |-> table[lines[k].id]]

\* lines 684-687 and get_textline_stroke_widths_heights_dist_trafo: a ValueError
\* without an image file, else one entry per line passed in and the two maxima
StrokeWidths ==
    /\ pc = "stroke"
    /\ steps' = Append(steps, "stroke")
    /\ IF ~page_path.img_found
       THEN /\ Raise("ValueError")
            /\ UNCHANGED <<textline_stroke_widths, textline_heights, sw_max, th_max>>
       ELSE LET ids == {text_lines[k].id : k \in 1..Len(text_lines)}
                sw == [id \in ids |-> page_path.swt.stroke_widths[id]]
                th == [id \in ids |-> page_path.swt.heights[id]]
            IN  /\ textline_stroke_widths' = sw
                /\ textline_heights' = th
                /\ sw_max' = FracMax(TableValues(sw, text_lines))
                /\ th_max' = FracMax(TableValues(th, text_lines))
                /\ pc' = "nodes"
                /\ UNCHANGED raised
    /\ UNCHANGED <<batch_vars, returned, page_idx, skipped_pages, outputs, text_regions, text_lines,
                   separator_regions, node_features, interacting_nodes, edge_features,
                   visual_regions_nodes, visual_regions_edges, gt_relations, num_nodes,
                   num_tr_ambiguous, delaunay_attempts, classifier_calls>>

\* lines 689-726: node features
NodeFeatures ==
    /\ pc = "nodes"
    /\ steps' = Append(steps, "nodes")
    /\ LET rows == [k \in 1..Len(text_regions) |->
                      NodeFeature(text_regions[k], page_path.resolution[1],
                                  page_path.resolution[2], textline_stroke_widths,
                                  textline_heights, sw_max, th_max, json_data,
                                  page_path.name)]
           err == FirstRaised(rows)
       IN  IF err # "None"
           THEN /\ Raise(err)
                /\ UNCHANGED node_features
           ELSE /\ node_features' = [k \in 1..Len(rows) |-> rows[k].row]
                /\ pc' = "topology"
                /\ UNCHANGED raised
    /\ UNCHANGED <<batch_vars, returned, page_idx, skipped_pages, outputs, text_regions, text_lines,
                   separator_regions, textline_stroke_widths, textline_heights, sw_max,
                   th_max, interacting_nodes, edge_features, visual_regions_nodes,
                   visual_regions_edges, gt_relations, num_nodes, num_tr_ambiguous,
                   delaunay_attempts, classifier_calls>>

\* lines 728-736: interacting nodes
Topology ==
    /\ pc = "topology"
    /\ steps' = Append(steps, "topology")
    /\ LET t == BuildTopology(interaction, num_nodes, node_features,
                              page_path.resolution[1], page_path.resolution[2],
                              page_path.tri)
       IN  /\ delaunay_attempts' = t.attempts
           /\ IF t.raised # "None"
              THEN /\ Raise(t.raised)
                   /\ UNCHANGED interacting_nodes
              ELSE /\ interacting_nodes' = t.edges
                   /\ pc' = "edges"
                   /\ UNCHANGED raised
    /\ UNCHANGED <<batch_vars, returned, page_idx, skipped_pages, outputs, text_regions, text_lines,
                   separator_regions, textline_stroke_widths, textline_heights, sw_max,
                   th_max, node_features, edge_features, visual_regions_nodes,
                   visual_regions_edges, gt_relations, num_nodes, num_tr_ambiguous,
                   classifier_calls>>

\* "regions['SeparatorRegion'] if 'SeparatorRegion' in regions else None"
LoadedSeparatorRegions(page) ==
    IF page.regions.SeparatorRegion.present
    THEN [isNone |-> FALSE, list |-> page.regions.SeparatorRegion.list]
    ELSE NoneList

\* what the edge loop reads of the state
EdgeLoopCfg ==
    [text_regions |-> text_regions,
     separators |-> separators,
     tb_sim_dict |-> [isNone |-> ~sim_feat_extractor, table |-> page_path.feature_dict],
     external_data |-> json_data,
     page_name |-> page_path.name]

\* a variant: the edge loop hands over to the ground truth, the visual regions
\* are passed by
EdgeFeaturesEndPassingVisual(r) ==
    /\ separator_regions' = r.separator_regions
    /\ classifier_calls' = r.calls
    /\ edge_features' = r.edge_features
    /\ IF r.raised # "None"
       THEN Raise(r.raised)
       ELSE /\ pc' = "gt"
            /\ UNCHANGED raised

\* the state after the edge loop ended with r
EdgeFeaturesEnd(r) ==
    /\ separator_regions' = r.separator_regions
    /\ classifier_calls' = r.calls
    /\ edge_features' = r.edge_features
    /\ IF r.raised # "None"
       THEN Raise(r.raised)
       ELSE /\ pc' = "visual"
            /\ UNCHANGED raised

\* lines 738-791: similarity table, separator regions, edge features
EdgeFeatures ==
    /\ pc = "edges"
    /\ steps' = Append(steps, "edges")
    /\ EdgeFeaturesEnd(EdgeLoop(EdgeLoopCfg, interacting_nodes, 1,
                                LoadedSeparatorRegions(page_path), <<>>, 0))
    /\ UNCHANGED <<batch_vars, returned, page_idx, skipped_pages, outputs, text_regions, text_lines,
                   textline_stroke_widths, textline_heights, sw_max, th_max,
                   node_features, interacting_nodes, visual_regions_nodes,
                   visual_regions_edges, gt_relations, num_nodes, num_tr_ambiguous,
                   delaunay_attempts>>

\* lines 793-820: visual regions for nodes and edges, "if visual_regions"
VisualRegions ==
    /\ pc = "visual"
    /\ steps' = Append(steps, "visual")
    /\ IF visual_regions
       THEN /\ visual_regions_nodes' =
                 [k \in 1..Len(text_regions) |-> get_node_visual_regions(text_regions[k])]
            /\ visual_regions_edges' = BuildVisualRegionsEdges(text_regions, interacting_nodes)
       ELSE UNCHANGED <<visual_regions_nodes, visual_regions_edges>>
    /\ pc' = "gt"
    /\ UNCHANGED <<batch_vars, returned, run_vars, text_regions, text_lines, separator_regions,
                   textline_stroke_widths, textline_heights, sw_max, th_max,
                   node_features, interacting_nodes, edge_features, gt_relations,
                   num_nodes, num_tr_ambiguous, delaunay_attempts, classifier_calls>>

\* lines 822-845: ground-truth relations
GroundTruth ==
    /\ pc = "gt"
    /\ steps' = Append(steps, "gt")
    /\ gt_relations' = BuildGtRelations(text_regions, page_path.article_dict)
    /\ num_tr_ambiguous' = NumAmbiguous(text_regions, page_path.article_dict)
    /\ pc' = "return"
    /\ UNCHANGED <<batch_vars, returned, run_vars, text_regions, text_lines, separator_regions,
                   textline_stroke_widths, textline_heights, sw_max, th_max,
                   node_features, interacting_nodes, edge_features,
                   visual_regions_nodes, visual_regions_edges, num_nodes,
                   delaunay_attempts, classifier_calls>>

\* lines 847-857: the arrays of the result; np.array raises a ValueError for rows
\* of unequal width and for rows that hold a list
Return ==
    /\ pc = "return"
    /\ steps' = Append(steps, "return")
    /\ IF IsMatrix(node_features) /\ IsMatrix(edge_features)
       THEN /\ pc' = "write"
            /\ UNCHANGED raised
       ELSE Raise("ValueError")
    /\ UNCHANGED <<batch_vars, returned, page_idx, skipped_pages, outputs, text_regions, text_lines,
                   separator_regions, textline_stroke_widths, textline_heights, sw_max,
                   th_max, node_features, interacting_nodes, edge_features,
                   visual_regions_nodes, visual_regions_edges, gt_relations, num_nodes,
                   num_tr_ambiguous, delaunay_attempts, classifier_calls>>

----------------------------------------------------------------------------
(* generate_feature_jsons *)

\* out_dict (lines 917-930)
out_dict ==
    [page |-> page_path.name,
     num_nodes |-> num_nodes,
     interacting_nodes |-> interacting_nodes,
     num_interacting_nodes |-> Len(interacting_nodes),
     node_features |-> node_features,
     edge_features |-> edge_features,
     visual_regions_nodes |-> visual_regions_nodes,
     visual_regions_edges |-> visual_regions_edges,
     gt_relations |-> gt_relations,
     gt_num_relations |-> Len(gt_relations)]

\* lines 915-950: "if num_nodes is not None" write the json, else record the page
\* as skipped; then the next page
WriteOrSkip ==
    /\ pc = "write"
    /\ IF num_nodes # -1 /\ Len(edge_features) = 0
       THEN \* "edge_features.tolist()" on None
            /\ Raise("AttributeError")
            /\ UNCHANGED <<outputs, skipped_pages, page_idx>>
       ELSE /\ IF num_nodes # -1
               THEN /\ outputs' = Append(outputs, out_dict)
                    /\ UNCHANGED skipped_pages
               ELSE /\ skipped_pages' = Append(skipped_pages, page_path.name)
                    /\ UNCHANGED outputs
            /\ page_idx' = page_idx + 1
            /\ pc' = "load"
            /\ UNCHANGED raised
    /\ UNCHANGED <<batch_vars, returned, page_vars>>

\* lines 951-955: the loop over page_paths is over
Finish ==
    /\ pc = "load"
    /\ page_idx > Len(page_paths)
    /\ pc' = "done"
    /\ UNCHANGED <<batch_vars, returned, run_vars, page_vars>>

----------------------------------------------------------------------------
(* Direct calls of the separator classifiers and of the two text features, on *)
(* the regions, separators and tables the state holds.  The separator list is *)
(* the caller's object: what a call does to it is there for the next call.    *)

\* the state after a classifier returned r for the regions i and j
SeparatorCallEnd(fn, i, j, r) ==
    /\ separator_regions' = [separator_regions EXCEPT !.list = r.seps]
    /\ returned' = [fn |-> fn, i |-> i, j |-> j, raised |-> "None", feature |-> r.feature]

CallSeparatorLine ==
    /\ pc = "call_separator"
    /\ \E i, j \in DOMAIN text_regions :
          /\ i # j
          /\ SeparatorCallEnd("line", i, j,
                 get_edge_separator_feature_line(text_regions[i], text_regions[j],
                                                 separator_regions.list))
    /\ UNCHANGED <<batch_vars, run_vars, pc, text_regions, text_lines,
                   textline_stroke_widths, textline_heights, sw_max, th_max,
                   node_features, interacting_nodes, edge_features,
                   visual_regions_nodes, visual_regions_edges, gt_relations, num_nodes,
                   num_tr_ambiguous, steps, delaunay_attempts, classifier_calls>>

CallSeparatorBB ==
    /\ pc = "call_separator"
    /\ \E i, j \in DOMAIN text_regions :
          /\ i # j
          /\ SeparatorCallEnd("bb", i, j,
                 get_edge_separator_feature_bb(text_regions[i], text_regions[j],
                                               separator_regions.list))
    /\ UNCHANGED <<batch_vars, run_vars, pc, text_regions, text_lines,
                   textline_stroke_widths, textline_heights, sw_max, th_max,
                   node_features, interacting_nodes, edge_features,
                   visual_regions_nodes, visual_regions_edges, gt_relations, num_nodes,
                   num_tr_ambiguous, steps, delaunay_attempts, classifier_calls>>

\* the state after a text feature returned r for region i
TextCallEnd(fn, i, r) ==
    returned' = [fn |-> fn, i |-> i, j |-> i, raised |-> r.raised, feature |-> r.feature]

CallStrokeWidth ==
    /\ pc = "call_text"
    /\ \E i \in DOMAIN text_regions :
          TextCallEnd("stroke_width", i,
              get_text_region_stroke_width_feature(text_regions[i],
                                                   textline_stroke_widths, sw_max))
    /\ UNCHANGED <<batch_vars, run_vars, page_vars, pc>>

CallTextHeight ==
    /\ pc = "call_text"
    /\ \E i \in DOMAIN text_regions :
          TextCallEnd("text_height", i,
              get_text_region_text_height_feature(text_regions[i], textline_heights,
                                                  th_max))
    /\ UNCHANGED <<batch_vars, run_vars, page_vars, pc>>

GeometryCallEnd(fn, i, feature) ==
    returned' = [fn |-> fn, i |-> i, j |-> i, raised |-> "None", feature |-> feature]

\* the norms of the direct calls of the two geometric features
CallNorms == <<1000, 1400>>

CallGeometricFeatures ==
    /\ pc = "call_geometry"
    /\ \E i \in DOMAIN text_regions :
          GeometryCallEnd("geometric", i,
              get_text_region_geometric_features(text_regions[i], CallNorms[1],
                                                 CallNorms[2]))
    /\ UNCHANGED <<batch_vars, run_vars, page_vars, pc>>

CallBaselineFeatures ==
    /\ pc = "call_geometry"
    /\ \E i \in DOMAIN text_regions :
          GeometryCallEnd("baseline", i,
              get_text_region_baseline_features(text_regions[i], CallNorms[1],
                                                CallNorms[2]))
    /\ UNCHANGED <<batch_vars, run_vars, page_vars, pc>>

----------------------------------------------------------------------------
(* Bounds and the inputs drawn within them *)

\* most text regions on a page
MaxNodes == 4

\* most pages in a batch
MaxPages == 2

\* the lattice the regions and separators of the direct calls lie on has
\* Lattice columns; its three rows are RatioThreshold high each
Lattice == 2

\* most lines of a region in the direct calls of the text features
MaxLines == 2

Resolution == <<1000, 1400>>

Box(x, y, w, h) == << <<x, y>>, <<x + w, y>>, <<x + w, y + h>>, <<x, y + h>> >>

\* a line of region k: id <<k, m>>, its baseline inside the region's box
MkLine(k, m, text, x, y) ==
    [id |-> <<k, m>>, text |-> text, baseline |-> << <<x + 2, y + 8 * m>>, <<x + 18, y + 8 * m>> >>]

\* region k: a 20 x 20 box at <<x, y>> with one line of text
MkRegion(k, x, y) ==
    [id |-> k, points |-> Box(x, y, 20, 20), region_type |-> "paragraph",
     text_lines |-> <<MkLine(k, 1, "t", x, y)>>]

\* the numbers of a set in ascending order
RECURSIVE NeighbourList(_)
NeighbourList(S) ==
    IF S = {} THEN <<>> ELSE <<SetMin(S)>> \o NeighbourList(S \ {SetMin(S)})

\* what scipy answers for n points, as one neighbour list per vertex:
\* every vertex next to every other one, neighbours ascending
CompleteNeighbours(n) == [v \in 1..n |-> NeighbourList((0..(n - 1)) \ {v - 1})]

\* a fan around vertex 0, neighbours descending
FanNeighbours(n) ==
    [v \in 1..n |->
        Reverse(NeighbourList(IF v = 1 THEN 1..(n - 1)
                              ELSE {0} \cup ({v - 2, v} \cap (1..(n - 1)))))]

TriPool(n) ==
    { [smooth |-> CompleteNeighbours(n), raw |-> FanNeighbours(n)],
      [smooth |-> FanNeighbours(n), raw |-> CompleteNeighbours(n)] }

\* an article assignment of article_dict: one id, or a list of ids
OneId(a) == [isList |-> FALSE, ids |-> <<a>>]

IdList(as) == [isList |-> TRUE, ids |-> as]

AssignPool == {OneId("a1"), OneId("a2"), IdList(<<"a1">>), IdList(<<"a1", "a2">>),
               IdList(<<"a2", "a1">>)}

Concat(seqs) ==
    LET RECURSIVE Cat(_)
        Cat(k) == IF k > Len(seqs) THEN <<>> ELSE seqs[k] \o Cat(k + 1)
    IN  Cat(1)

NoEntries == [isList |-> TRUE, vals |-> <<>>]

EmptyTable == [entries |-> [x \in {} |-> NoEntries], hasDefault |-> FALSE, default |-> NoEntries]

\* a page as its collaborators present it: the regions by kind, all lines, the
\* article ids, the resolution, whether the image file is found, the stroke
\* widths and heights of the lines, the triangulations and the similarity table
MkPage(name, hasTextRegion, trs, separator_key, article_dict, img_found, tri) ==
    LET lines == Concat([k \in 1..Len(trs) |-> trs[k].text_lines])
        ids == {lines[k].id : k \in 1..Len(lines)}
    IN  [name |-> name,
         regions |-> [TextRegion |-> [present |-> hasTextRegion, list |-> trs],
                      SeparatorRegion |-> separator_key],
         text_lines |-> lines,
         article_dict |-> article_dict,
         resolution |-> Resolution,
         img_found |-> img_found,
         swt |-> [stroke_widths |-> [id \in ids |-> Frac(id[1] + 1, 1)],
                  heights |-> [id \in ids |-> Frac(8 * id[2], 1)]],
         tri |-> tri,
         feature_dict |-> EmptyTable]

NoSeparatorKey == [present |-> FALSE, list |-> <<>>]

SameArticleDict(n) == [k \in 1..n |-> OneId("a1")]

Cfg(pages, inter, seps, vis, json, sim) ==
    [page_paths |-> pages, interaction |-> inter, separators |-> seps,
     visual_regions |-> vis, json_data |-> json, sim_feat_extractor |-> sim]

FirstTri(n) == [smooth |-> CompleteNeighbours(n), raw |-> FanNeighbours(n)]

\* a page of plain regions at the given places
PlainPage(trs, tri) ==
    MkPage("page", TRUE, trs, NoSeparatorKey, SameArticleDict(Len(trs)), TRUE, tri)

\* Topology: n regions one below the other, each in one of three columns. The
\* columns at 80 and 100 round to the same x; one column alone is a straight line
Columns == {80, 100, 300}

ColumnRegions(xs) == [k \in 1..Len(xs) |-> MkRegion(k, xs[k], 100 * (k - 1))]

TopologyConfigsOf(xs, inter) ==
    { Cfg(<<PlainPage(ColumnRegions(xs), tri)>>, inter, "bb", FALSE, <<>>, FALSE) :
        tri \in IF Len(xs) >= 4 /\ inter = "delaunay"
                THEN TriPool(Len(xs)) ELSE {FirstTri(Len(xs))} }

TopologyConfigs ==
    UNION { TopologyConfigsOf(xs, inter) :
              xs \in UNION {[1..m -> Columns] : m \in 2..MaxNodes},
              inter \in {"fully", "delaunay"} }

\* the same pages with visual regions
VisualConfigs ==
    { Cfg(<<PlainPage(ColumnRegions(xs), FirstTri(Len(xs)))>>, "fully", "bb", TRUE,
          <<>>, FALSE) : xs \in UNION {[1..m -> Columns] : m \in 2..(MaxNodes - 1)} }

\* Ground truth: n regions in two columns, every assignment of article ids
ZigZag(n) == ColumnRegions([k \in 1..n |-> IF k % 2 = 1 THEN 300 ELSE 80])

GroundTruthConfigs ==
    { Cfg(<<MkPage("page", TRUE, ZigZag(Len(ad)), NoSeparatorKey, ad, TRUE,
                   FirstTri(Len(ad)))>>, "fully", "bb", FALSE, <<>>, FALSE) :
        ad \in UNION {[1..m -> AssignPool] : m \in 2..MaxNodes} }

\* Separators: three regions in an L, bars and a triangle between them
LRegions == <<MkRegion(1, 100, 100), MkRegion(2, 400, 100), MkRegion(3, 100, 400)>>

SeparatorShapes ==
    { Box(300, 50, 10, 200),                                \* a bar between 1 and 2
      Box(50, 300, 200, 10),                                \* a bar between 1 and 3
      << <<200, 100>>, <<500, 100>>, <<200, 130>> >> }      \* a triangle across 1-2

Orientations == {"None", "horizontal", "vertical"}

PixelSeparators ==
    { [id |-> "s", points |-> pts, orientation |-> o] :
        pts \in SeparatorShapes, o \in Orientations }

SeparatorKeys ==
    { NoSeparatorKey, [present |-> TRUE, list |-> <<>>] }
      \cup { [present |-> TRUE, list |-> <<a>>] : a \in PixelSeparators }
      \cup { [present |-> TRUE, list |-> <<a, b>>] :
               <<a, b>> \in {ab \in PixelSeparators \X PixelSeparators :
                               ab[1].points # ab[2].points} }

\* the ground truth pages of four regions once more, triangulated as a fan
TriangulatedGroundTruthConfigs ==
    { Cfg(<<MkPage("page", TRUE, ZigZag(4), NoSeparatorKey, ad, TRUE,
                   [smooth |-> FanNeighbours(4), raw |-> CompleteNeighbours(4)])>>,
          "delaunay", "bb", FALSE, <<>>, FALSE) :
        ad \in [1..4 -> AssignPool] }

SeparatorConfigs ==
    { Cfg(<<MkPage("page", TRUE, LRegions, key, SameArticleDict(3), TRUE, FirstTri(3))>>,
          "delaunay", seps, FALSE, <<>>, FALSE) :
        key \in SeparatorKeys, seps \in {"line", "bb"} }

\* External sources: two regions, every table over a few values
JsonList(fs) == [isList |-> TRUE, vals |-> fs]

JsonNumber(f) == [isList |-> FALSE, vals |-> <<f>>]

Values == {JsonList(<<Frac(3, 10)>>), JsonList(<<Frac(1, 10), Frac(2, 10)>>),
           JsonNumber(Frac(7, 10))}

TablesOver(keys) ==
    { [entries |-> e, hasDefault |-> d[1], default |-> d[2]] :
        e \in UNION {[K -> Values] : K \in SUBSET keys},
        d \in {<<FALSE, NoEntries>>} \cup {<<TRUE, v>> : v \in Values} }

NodeTables == TablesOver({1, 2})

EdgeTables == TablesOver({<<1, 2>>, <<2, 1>>})

ExtPage(has_node, node_table, has_edge, edge_table) ==
    [has_node_features |-> has_node, node_features |-> node_table,
     has_edge_features |-> has_edge, edge_features |-> edge_table]

SourceFor(name, ext_page) == [n \in {name} |-> ext_page]

ExternalSources ==
    { SourceFor("page", ExtPage(TRUE, t, FALSE, EmptyTable)) : t \in NodeTables }
      \cup { SourceFor("page", ExtPage(FALSE, EmptyTable, TRUE, t)) : t \in EdgeTables }
      \cup { SourceFor("page", ExtPage(TRUE, EmptyTable, TRUE, EmptyTable)),
             SourceFor("other", ExtPage(TRUE, EmptyTable, TRUE, EmptyTable)) }

TwoRegions == ZigZag(2)

ExternalConfigs ==
    { Cfg(<<PlainPage(TwoRegions, FirstTri(2))>>, "fully", "bb", FALSE, <<src>>, FALSE) :
        src \in ExternalSources }
      \cup
    { Cfg(<<PlainPage(TwoRegions, FirstTri(2))>>, "fully", "bb", FALSE,
          <<SourceFor("page", ExtPage(TRUE, EmptyTable, TRUE, EmptyTable)), src>>, FALSE) :
        src \in {SourceFor("page", ExtPage(TRUE, t, TRUE, EmptyTable)) :
                   t \in {t \in NodeTables : ~t.hasDefault}} }

\* a text block similarity extractor whose feature_dict is one of the edge tables
SimilarityConfigs ==
    { Cfg(<<[PlainPage(TwoRegions, FirstTri(2)) EXCEPT !.feature_dict = t]>>,
          "fully", "bb", FALSE, <<>>, TRUE) : t \in EdgeTables }

\* Discard: regions with text, without text, without lines, too small, mixed
RegionKinds == {"text", "no_text", "no_lines", "small", "exact", "mixed", "heading"}

KindRegion(k, kind) ==
    LET x == IF k % 2 = 1 THEN 300 ELSE 80
        y == 100 * (k - 1)
        r == MkRegion(k, x, y)
    IN  CASE kind = "text" -> r
          [] kind = "no_text" -> [r EXCEPT !.text_lines = <<MkLine(k, 1, "", x, y)>>]
          [] kind = "no_lines" -> [r EXCEPT !.text_lines = <<>>]
          [] kind = "small" -> [r EXCEPT !.points = Box(x, y, 20, MinBoxSize - 1)]
          [] kind = "exact" -> [r EXCEPT !.points = Box(x, y, MinBoxSize, MinBoxSize)]
          [] kind = "mixed" -> [r EXCEPT !.text_lines =
                                   <<MkLine(k, 1, "", x, y), MkLine(k, 2, "t", x, y)>>]
          [] kind = "heading" -> [r EXCEPT !.region_type = "Heading"]

DiscardConfigs ==
    { Cfg(<<PlainPage([k \in 1..Len(kinds) |-> KindRegion(k, kinds[k])],
                      FirstTri(Len(kinds)))>>, "delaunay", "line", FALSE, <<>>, FALSE) :
        kinds \in UNION {[1..m -> RegionKinds] : m \in 0..(MaxNodes - 1)} }

\* Batches: pages that are written, skipped, or end in an error
FineRegions == ColumnRegions(<<80, 300, 80, 100>>)

StraightRegions == ColumnRegions(<<80, 80, 80, 80>>)

BatchPages ==
    { MkPage("fine", TRUE, FineRegions, NoSeparatorKey, SameArticleDict(4), TRUE, FirstTri(4)),
      MkPage("no_regions", FALSE, <<>>, NoSeparatorKey, SameArticleDict(0), TRUE, FirstTri(0)),
      MkPage("lonely", TRUE, <<KindRegion(1, "text"), KindRegion(2, "no_text")>>,
             NoSeparatorKey, SameArticleDict(2), TRUE, FirstTri(2)),
      MkPage("straight", TRUE, StraightRegions, NoSeparatorKey, SameArticleDict(4), TRUE,
             FirstTri(4)),
      MkPage("no_image", TRUE, FineRegions, NoSeparatorKey, SameArticleDict(4), FALSE,
             FirstTri(4)),
      MkPage("separated", TRUE, LRegions,
             [present |-> TRUE,
              list |-> <<[id |-> "s", orientation |-> "None",
                          points |-> << <<200, 100>>, <<500, 100>>, <<200, 130>> >>]>>],
             SameArticleDict(3), TRUE, FirstTri(3)) }

\* Edge rows: four regions, a bar between the columns or no separator, both
\* interactions, both classifiers, and a source with one value per ordered pair
PairTable ==
    [entries |-> [p \in {p \in (1..4) \X (1..4) : p[1] # p[2]} |->
                     JsonList(<<Frac(10 * p[1] + p[2], 100)>>)],
     hasDefault |-> FALSE, default |-> NoEntries]

ColumnBar == [id |-> "s", points |-> Box(200, 0, 10, 400), orientation |-> "None"]

EdgeRowConfigsOf(inter, seps) ==
    { Cfg(<<MkPage("page", TRUE, FineRegions, key, SameArticleDict(4), TRUE, tri)>>,
          inter, seps, FALSE,
          <<SourceFor("page", ExtPage(FALSE, EmptyTable, TRUE, PairTable))>>, FALSE) :
        key \in {NoSeparatorKey, [present |-> TRUE, list |-> <<ColumnBar>>]},
        tri \in IF inter = "delaunay" THEN TriPool(4) ELSE {FirstTri(4)} }

EdgeRowConfigs ==
    UNION { EdgeRowConfigsOf(inter, seps) :
              inter \in {"fully", "delaunay"}, seps \in {"line", "bb"} }

BatchConfigs ==
    { Cfg(pages, "delaunay", "line", FALSE, <<>>, FALSE) :
        pages \in UNION {[1..m -> BatchPages] : m \in 0..MaxPages} }

\* Direct calls of the classifiers: two regions and one separator, or none, on
\* a lattice; a separator is a box or the upper left half of one
LatticeXs == 0..Lattice

LatticeYs == {0, RatioThreshold, 2 * RatioThreshold}

LatticeBoxes ==
    { Box(x, y, w, h) : x \in LatticeXs, y \in LatticeYs,
                        w \in 1..Lattice, h \in {RatioThreshold, 2 * RatioThreshold} }
      \cap [1..4 -> LatticeXs \X LatticeYs]

LatticeRegion(k, points) ==
    [id |-> k, points |-> points, region_type |-> "paragraph", text_lines |-> <<>>]

BoxLeq(p, q) == LexLess(p[1], q[1]) \/ (p[1] = q[1] /\ ~LexLess(q[3], p[3]))

LatticePairs ==
    { <<LatticeRegion(1, p), LatticeRegion(2, q)>> :
        <<p, q>> \in {pq \in LatticeBoxes \X LatticeBoxes : BoxLeq(pq[1], pq[2])} }

\* the boxes of separators are one column wide or as wide as the lattice
SeparatorBoxes == {b \in LatticeBoxes : b[2][1] - b[1][1] \in {1, Lattice}}

LatticeSeparators ==
    { [id |-> "s", points |-> pts, orientation |-> o] :
        pts \in SeparatorBoxes \cup {<<b[4], b[1], b[2]>> : b \in SeparatorBoxes},
        o \in Orientations }

SeparatorCalls ==
    { [text_regions |-> trs, separator_regions |-> [isNone |-> FALSE, list |-> S],
       textline_stroke_widths |-> NoTable, textline_heights |-> NoTable,
       sw_max |-> F1, th_max |-> F1, pc |-> "call_separator"] :
        trs \in LatticePairs, S \in {<<>>} \cup {<<a>> : a \in LatticeSeparators} }

\* Direct calls of the text features: one region of up to MaxLines lines, with
\* and without text, tables over some of the line ids, and a norm
TextRegionsOf(m) ==
    { [id |-> 1, points |-> Box(100, 100, 20, 20), region_type |-> "paragraph",
       text_lines |-> [k \in 1..m |-> MkLine(1, k, texts[k], 100, 100)]] :
        texts \in [1..m -> {"", "t"}] }

LineTables ==
    UNION { [K -> {Frac(2, 1), Frac(3, 1)}] : K \in SUBSET {<<1, m>> : m \in 1..MaxLines} }

Norms == {F0, F1, Frac(2, 1)}

TextCalls ==
    { [text_regions |-> <<r>>, separator_regions |-> NoneList,
       textline_stroke_widths |-> sw, textline_heights |-> th,
       sw_max |-> norm, th_max |-> norm, pc |-> "call_text"] :
        r \in UNION {TextRegionsOf(m) : m \in 0..MaxLines},
        sw \in LineTables, th \in LineTables, norm \in Norms }

\* Direct calls of the geometric features: a region and the same region moved
\* by <<dx, dy>>, near the origin and at the far end of the np.int32 range
Translated(points, dx, dy) == [k \in 1..Len(points) |-> <<points[k][1] + dx, points[k][2] + dy>>]

TranslatedRegion(k, tr, dx, dy) ==
    [tr EXCEPT !.id = k,
               !.points = Translated(tr.points, dx, dy),
               !.text_lines = [m \in 1..Len(tr.text_lines) |->
                                  [tr.text_lines[m] EXCEPT
                                      !.id = <<k, m>>,
                                      !.baseline = Translated(tr.text_lines[m].baseline, dx, dy)]]]

\* the far corner: a 20 x 20 box there has min + max = 2^31 - 20
FarCoordinate == (Int32Max - 1) \div 2 - 19

Corners == {100, FarCoordinate}

Offsets == {-30, 0, 20}

GeometryRegionsAt(x, y) ==
    { [id |-> 1, points |-> pts, region_type |-> "paragraph",
       text_lines |-> [m \in 1..n |-> MkLine(1, m, "t", x, y)]] :
        pts \in {Box(x, y, 20, 20), << <<x, y>>, <<x + 20, y + 10>>, <<x + 5, y + 20>> >>},
        n \in 1..MaxLines }

GeometryRegions == UNION { GeometryRegionsAt(x, y) : x \in Corners, y \in Corners }

GeometryCalls ==
    { [text_regions |-> <<tr, TranslatedRegion(2, tr, dx, dy)>>,
       separator_regions |-> NoneList,
       textline_stroke_widths |-> NoTable, textline_heights |-> NoTable,
       sw_max |-> F1, th_max |-> F1, pc |-> "call_geometry"] :
        tr \in GeometryRegions, dx \in Offsets, dy \in Offsets }

----------------------------------------------------------------------------
(* The run of generate_feature_jsons over a batch *)

\* the state at the start of the loop over page_paths
Start(c) ==
    /\ page_paths = c.page_paths
    /\ interaction = c.interaction
    /\ separators = c.separators
    /\ visual_regions = c.visual_regions
    /\ json_data = c.json_data
    /\ sim_feat_extractor = c.sim_feat_extractor
    /\ pc = "load"
    /\ page_idx = 1
    /\ skipped_pages = <<>>
    /\ outputs = <<>>
    /\ raised = "None"
    /\ returned = NoCall
    /\ FreshPage

\* the state before the direct calls c
StartCalls(c) ==
    /\ page_paths = <<>>
    /\ interaction = "fully"
    /\ separators = "line"
    /\ visual_regions = FALSE
    /\ json_data = <<>>
    /\ sim_feat_extractor = FALSE
    /\ pc = c.pc
    /\ page_idx = 1
    /\ skipped_pages = <<>>
    /\ outputs = <<>>
    /\ raised = "None"
    /\ returned = NoCall
    /\ text_regions = c.text_regions
    /\ text_lines = <<>>
    /\ separator_regions = c.separator_regions
    /\ textline_stroke_widths = c.textline_stroke_widths
    /\ textline_heights = c.textline_heights
    /\ sw_max = c.sw_max
    /\ th_max = c.th_max
    /\ node_features = <<>>
    /\ interacting_nodes = <<>>
    /\ edge_features = <<>>
    /\ visual_regions_nodes = <<>>
    /\ visual_regions_edges = NoVisual
    /\ gt_relations = <<>>
    /\ num_nodes = -1
    /\ num_tr_ambiguous = 0
    /\ steps = <<>>
    /\ delaunay_attempts = <<>>
    /\ classifier_calls = 0

Init ==
    \/ \E c \in TopologyConfigs : Start(c)
    \/ \E c \in VisualConfigs : Start(c)
    \/ \E c \in GroundTruthConfigs : Start(c)
    \/ \E c \in TriangulatedGroundTruthConfigs : Start(c)
    \/ \E c \in SeparatorConfigs : Start(c)
    \/ \E c \in ExternalConfigs : Start(c)
    \/ \E c \in SimilarityConfigs : Start(c)
    \/ \E c \in DiscardConfigs : Start(c)
    \/ \E c \in BatchConfigs : Start(c)
    \/ \E c \in EdgeRowConfigs : Start(c)
    \/ \E c \in SeparatorCalls : StartCalls(c)
    \/ \E c \in TextCalls : StartCalls(c)
    \/ \E c \in GeometryCalls : StartCalls(c)

Next ==
    \/ LoadPage
    \/ Discard
    \/ StrokeWidths
    \/ NodeFeatures
    \/ Topology
    \/ EdgeFeatures
    \/ VisualRegions
    \/ GroundTruth
    \/ Return
    \/ WriteOrSkip
    \/ Finish
    \/ CallSeparatorLine
    \/ CallSeparatorBB
    \/ CallStrokeWidth
    \/ CallTextHeight
    \/ CallGeometricFeatures
    \/ CallBaselineFeatures

Spec == Init /\ [][Next]_vars

----------------------------------------------------------------------------
(* Properties *)

\* build_input_and_target is at work on page_path
InPage == pc \in {"discard", "stroke", "nodes", "topology", "edges", "visual", "gt",
                  "return", "write", "raised"}

\* the step of build_input_and_target was done for page_path
Done(step) == InPage /\ \E k \in DOMAIN steps : steps[k] = step

\* how often a value occurs in a list
Count(list, x) == Cardinality({k \in DOMAIN list : list[k] = x})

\* the k-th (from 1) of the ordered pairs <<i, j>>, i # j, over 0..n-1 in
\* row-major order
RowMajorPair(n, k) ==
    LET i == (k - 1) \div (n - 1)
        r == (k - 1) % (n - 1)
    IN  <<i, IF r >= i THEN r + 1 ELSE r>>

\* C1: for N >= 2 nodes the 'fully' edge list has exactly N * (N - 1) pairs over
\* 0..N-1, every ordered pair with i # j exactly once, no pair with i = j, in
\* row-major order
C1_FullyConnectedEdges ==
    (Done("topology") /\ interaction = "fully" /\ num_nodes >= 2) =>
        /\ Len(interacting_nodes) = num_nodes * (num_nodes - 1)
        /\ \A i, j \in 0..(num_nodes - 1) :
              Count(interacting_nodes, <<i, j>>) = IF i = j THEN 0 ELSE 1
        /\ \A k \in DOMAIN interacting_nodes :
              interacting_nodes[k] = RowMajorPair(num_nodes, k)

C1_Witness ==
    /\ Done("topology")
    /\ interaction = "fully"
    /\ interacting_nodes = << <<0, 1>>, <<0, 2>>, <<1, 0>>, <<1, 2>>, <<2, 0>>, <<2, 1>> >>

\* C2: with interaction = 'delaunay' and 2 <= N < 4 surviving regions the edge
\* list is the one of 'fully', pair by pair, and no triangulation is attempted
C2_DelaunayBelowFourIsFully ==
    (Done("topology") /\ interaction = "delaunay" /\ num_nodes >= 2 /\ num_nodes < 4) =>
        /\ raised = "None"
        /\ delaunay_attempts = <<>>
        /\ interacting_nodes = fully_connected_edges(num_nodes)
        /\ \A k \in DOMAIN interacting_nodes :
              interacting_nodes[k] = RowMajorPair(num_nodes, k)

C2_Witness ==
    /\ Done("topology")
    /\ interaction = "delaunay"
    /\ num_nodes = 3
    /\ Len(interacting_nodes) = 6
    /\ delaunay_attempts = <<>>

\* C3: on a page that is not skipped the ground-truth list is reflexive and
\* symmetric over the surviving nodes
C3_GroundTruthReflexiveSymmetric ==
    Done("gt") =>
        /\ \A i \in 0..(num_nodes - 1) : Count(gt_relations, <<1, i, i>>) > 0
        /\ \A i, j \in 0..(num_nodes - 1) :
              (Count(gt_relations, <<1, i, j>>) > 0) <=> (Count(gt_relations, <<1, j, i>>) > 0)

C3_Witness ==
    /\ Done("gt")
    /\ num_nodes >= 3
    /\ Count(gt_relations, <<1, 0, 2>>) > 0
    /\ Count(gt_relations, <<1, 2, 0>>) > 0
    /\ Count(gt_relations, <<1, 0, 1>>) = 0

\* the separator lists a state holds: the one direct calls or the edge loop work
\* on, and the one the page was loaded with
SeparatorLists ==
    {separator_regions.list}
      \cup (IF InPage THEN {page_path.regions.SeparatorRegion.list} ELSE {})

\* C4: both separator strategies give the same feature for (A, B) and (B, A),
\* for all regions A, B and every separator list
C4_SeparatorFeatureSymmetric ==
    /\ \A S \in SeparatorLists : \A i, j \in DOMAIN text_regions :
          /\ get_edge_separator_feature_bb(text_regions[i], text_regions[j], S).feature
               = get_edge_separator_feature_bb(text_regions[j], text_regions[i], S).feature
          /\ get_edge_separator_feature_line(text_regions[i], text_regions[j], S).feature
               = get_edge_separator_feature_line(text_regions[j], text_regions[i], S).feature
    /\ returned.fn \in {"line", "bb"} =>
          returned.feature = Classify(text_regions[returned.j], text_regions[returned.i],
                                      separator_regions.list, returned.fn).feature

C4_Witness ==
    /\ pc = "call_separator"
    /\ returned.fn = "bb"
    /\ returned.i = 2
    /\ returned.j = 1
    /\ returned.feature = <<F0, F1>>
    /\ get_edge_separator_feature_line(text_regions[2], text_regions[1],
                                       separator_regions.list).feature = <<F0, F1>>

\* C5: on a page without separator regions (the kind absent, or its list empty)
\* every edge's separator block is (0.0, 0.0) and no classifier is called, for
\* both strategies; without external data and similarity extractor every edge
\* feature is 2 wide
C5_NoSeparatorsZeroBlock ==
    (Done("edges") /\ page_path.regions.SeparatorRegion.list = <<>>) =>
        /\ classifier_calls = 0
        /\ \A k \in DOMAIN edge_features :
              /\ Len(edge_features[k]) >= 2
              /\ SubSeq(edge_features[k], 1, 2) = <<Scalar(F0), Scalar(F0)>>
        /\ (json_data = <<>> /\ ~sim_feat_extractor) =>
              /\ Len(edge_features) = Len(interacting_nodes)
              /\ \A k \in DOMAIN edge_features : Len(edge_features[k]) = 2

C5_Witness ==
    /\ Done("edges")
    /\ page_path.regions.SeparatorRegion = [present |-> TRUE, list |-> <<>>]
    /\ separators = "line"
    /\ Len(edge_features) = 6
    /\ classifier_calls = 0

\* C6: for a region all of whose lines have empty text both text features are
\* [0.0], whatever the tables hold (also without the region's line ids) and
\* whatever the norm
C6_EmptyTextZeroFeature ==
    (returned.fn \in {"stroke_width", "text_height"}
       /\ \A m \in DOMAIN text_regions[returned.i].text_lines :
             text_regions[returned.i].text_lines[m].text = "")
      => (returned.raised = "None" /\ returned.feature = <<F0>>)

C6_Witness ==
    /\ returned.fn = "text_height"
    /\ Len(text_regions[1].text_lines) = 2
    /\ \A m \in 1..2 : text_regions[1].text_lines[m].text = ""
    /\ DOMAIN textline_heights = {<<1, 1>>}
    /\ th_max = F0
    /\ returned.feature = <<F0>>

\* the effective article id of the region at node index i: the first id of a
\* list of several ids, the assignment itself otherwise
EffectiveIdOfNode(i) ==
    LET assigned == page_path.article_dict[text_regions[i + 1].id]
    IN  IF assigned.isList /\ Len(assigned.ids) > 1
        THEN [isList |-> FALSE, ids |-> <<assigned.ids[1]>>]
        ELSE assigned

NodeMiss(k, r) ==
    /\ page_path.name \in DOMAIN json_data[k]
    /\ json_data[k][page_path.name].has_node_features
    /\ text_regions[r].id \notin DOMAIN json_data[k][page_path.name].node_features.entries
    /\ ~json_data[k][page_path.name].node_features.hasDefault

\* source k has the page and an edge table that holds neither the pair of ids of
\* edge <<a, b>> nor a default
EdgeMiss(k, a, b) ==
    /\ page_path.name \in DOMAIN json_data[k]
    /\ json_data[k][page_path.name].has_edge_features
    /\ <<text_regions[a + 1].id, text_regions[b + 1].id>>
         \notin DOMAIN json_data[k][page_path.name].edge_features.entries
    /\ ~json_data[k][page_path.name].edge_features.hasDefault

\* the width of what source k adds to the row of region r
NodeWidth(k, r) ==
    IF page_path.name \notin DOMAIN json_data[k]
         \/ ~json_data[k][page_path.name].has_node_features THEN 0
    ELSE IF text_regions[r].id \in DOMAIN json_data[k][page_path.name].node_features.entries
    THEN Len(json_data[k][page_path.name].node_features.entries[text_regions[r].id].vals)
    ELSE 1

\* the width of what source k adds to the row of edge <<a, b>>
EdgeWidth(k, a, b) ==
    LET ids == <<text_regions[a + 1].id, text_regions[b + 1].id>>
        table == json_data[k][page_path.name].edge_features
    IN  IF page_path.name \notin DOMAIN json_data[k]
             \/ ~json_data[k][page_path.name].has_edge_features THEN 0
        ELSE IF ids \in DOMAIN table.entries /\ table.entries[ids].isList
        THEN Len(table.entries[ids].vals)
        ELSE IF table.hasDefault THEN Len(table.default.vals)
        ELSE 1

\* the column (from 1) at which the block of source k starts, after base columns
RECURSIVE NodeBlockStart(_, _, _)
NodeBlockStart(k, r, base) ==
    IF k = 1 THEN base + 1 ELSE NodeBlockStart(k - 1, r, base) + NodeWidth(k - 1, r)

RECURSIVE EdgeBlockStart(_, _, _, _)
EdgeBlockStart(k, a, b, base) ==
    IF k = 1 THEN base + 1
    ELSE EdgeBlockStart(k - 1, a, b, base) + EdgeWidth(k - 1, a, b)

\* where a source misses, its block is [0.0] in the node row, [0.5] in the edge row
MissBlocks ==
    /\ (Done("nodes") /\ node_features # <<>>) =>
          \A r \in DOMAIN node_features : \A k \in DOMAIN json_data :
             NodeMiss(k, r) =>
                /\ Len(node_features[r]) >= NodeBlockStart(k, r, 15)
                /\ node_features[r][NodeBlockStart(k, r, 15)] = Scalar(F0)
    /\ (Done("edges") /\ ~sim_feat_extractor) =>
          \A e \in DOMAIN edge_features : \A k \in DOMAIN json_data :
             EdgeMiss(k, interacting_nodes[e][1], interacting_nodes[e][2]) =>
                /\ Len(edge_features[e])
                     >= EdgeBlockStart(k, interacting_nodes[e][1], interacting_nodes[e][2], 2)
                /\ edge_features[e][EdgeBlockStart(k, interacting_nodes[e][1],
                                                   interacting_nodes[e][2], 2)]
                     = Scalar(FHalf)

\* some source misses for some region or pair of regions of the page
SomeMiss ==
    \E k \in DOMAIN json_data :
        \/ \E r \in DOMAIN text_regions : NodeMiss(k, r)
        \/ \E a, b \in 0..(Len(text_regions) - 1) : a # b /\ EdgeMiss(k, a, b)

\* a value is a list of one number
WidthOne(value) == value.isList /\ Len(value.vals) = 1

\* every source keeps to the width of the hardcoded values: what a lookup can
\* add to a row is one number
WidthContract ==
    \A k \in DOMAIN json_data : \A name \in DOMAIN json_data[k] :
        LET ext_page == json_data[k][name]
        IN  /\ ext_page.has_node_features =>
                /\ \A id \in DOMAIN ext_page.node_features.entries :
                      WidthOne(ext_page.node_features.entries[id])
                /\ ext_page.node_features.hasDefault =>
                      ~ext_page.node_features.default.isList
            /\ ext_page.has_edge_features =>
                /\ \A ids \in DOMAIN ext_page.edge_features.entries :
                      ext_page.edge_features.entries[ids].isList =>
                         WidthOne(ext_page.edge_features.entries[ids])
                /\ ext_page.edge_features.hasDefault =>
                      WidthOne(ext_page.edge_features.default)

\* C8 as stated: where a source has the table but neither the entry nor a
\* default, the block is [0.0] (node) or [0.5] (edge) and no error leaves
\* build_input_and_target
C8_MissNeverRaises ==
    /\ MissBlocks
    /\ (InPage /\ json_data # <<>> /\ SomeMiss) => raised = "None"

\* C8, amended: the blocks are [0.0] and [0.5] and the missing entries raise
\* nothing (no KeyError leaves the function); no error at all leaves it if every
\* source keeps to width one, and an error that does leave it is the TypeError
\* of extending by a number or the ValueError of rows that form no matrix
C8_MissFallsBack ==
    /\ MissBlocks
    /\ (InPage /\ json_data # <<>>) =>
          /\ raised \in {"None", "TypeError", "ValueError"}
          /\ WidthContract => raised = "None"
          /\ raised = "ValueError" =>
                /\ Done("return")
                /\ \/ \E r \in DOMAIN node_features :
                        \/ Len(node_features[r]) # Len(node_features[1])
                        \/ \E c \in DOMAIN node_features[r] : node_features[r][c].nested
                   \/ \E e \in DOMAIN edge_features :
                        Len(edge_features[e]) # Len(edge_features[1])

C8_Witness ==
    /\ Done("return")
    /\ raised = "None"
    /\ Len(json_data) = 2
    /\ NodeMiss(1, 1) /\ NodeMiss(2, 1) /\ ~NodeMiss(2, 2)
    /\ EdgeMiss(1, 0, 1)
    /\ node_features[1][16] = Scalar(F0)
    /\ node_features[1][17] = Scalar(F0)
    /\ edge_features[1][3] = Scalar(FHalf)

\* C9: a second run on the same inputs gives what the first gave: a classifier
\* called again on the separator objects its first call left returns the same
\* feature, the edge loop run again on the separator objects it left builds the
\* same edge features, and equal pages of a batch give equal outputs
C9_SecondRunSameResult ==
    /\ returned.fn \in {"line", "bb"} =>
          returned.feature = Classify(text_regions[returned.i], text_regions[returned.j],
                                      separator_regions.list, returned.fn).feature
    /\ (Done("edges") /\ raised = "None") =>
          edge_features = EdgeLoop(EdgeLoopCfg, interacting_nodes, 1, separator_regions,
                                   <<>>, 0).edge_features
    /\ \A p, q \in DOMAIN outputs :
          outputs[p].page = outputs[q].page => outputs[p] = outputs[q]

C9_Witness ==
    /\ returned.fn = "line"
    /\ returned.feature # <<F0, F0>>
    /\ Len(separator_regions.list) = 1
    /\ Len(separator_regions.list[1].points) = 4
    /\ separator_regions.list[1].points[1] = separator_regions.list[1].points[4]

\* the page fails the way C10 names: no triangulation of its regions, rounded
\* or not, or no image file
PageFailed ==
    /\ pc = "raised"
    /\ \/ raised = "QhullError"
       \/ raised = "ValueError" /\ ~page_path.img_found

\* C10 as stated: a page whose triangulation fails twice, or whose image file
\* is not found, does not end the batch; it is recorded as skipped and the
\* pages after it are processed
C10_FailedPageIsSkipped ==
    /\ ~PageFailed
    /\ pc = "done" =>
          \A k \in DOMAIN page_paths :
             \/ \E o \in DOMAIN outputs : outputs[o].page = page_paths[k].name
             \/ \E m \in DOMAIN skipped_pages : skipped_pages[m] = page_paths[k].name

\* a region that has a line with text and a bounding box of at least
\* MinBoxSize by MinBoxSize
Survives(tr) ==
    /\ \E k \in DOMAIN tr.text_lines : tr.text_lines[k].text # ""
    /\ SetMax({p[1] : p \in Range(tr.points)}) - SetMin({p[1] : p \in Range(tr.points)}) >= 10
    /\ SetMax({p[2] : p \in Range(tr.points)}) - SetMin({p[2] : p \in Range(tr.points)}) >= 10

\* the page has no 'TextRegion' kind, or fewer than two of its regions survive
TooFewRegions(page) ==
    \/ ~page.regions.TextRegion.present
    \/ Cardinality({k \in DOMAIN page.regions.TextRegion.list :
                      Survives(page.regions.TextRegion.list[k])}) < 2

\* C11: for a page without the 'TextRegion' kind, or with fewer than two regions
\* left after the discard, build_input_and_target returns the all-None result
\* with no stroke widths, features, topology or ground truth computed; no output
\* is written for the page, its name is appended to the skipped pages and the
\* loop goes on with the next page
C11_TooFewRegionsIsSkipped ==
    /\ (InPage /\ TooFewRegions(page_path)) =>
          /\ pc \in {"discard", "write"}
          /\ num_nodes = -1
          /\ steps \in {<<"load">>, <<"load", "discard">>}
          /\ textline_stroke_widths = NoTable /\ textline_heights = NoTable
          /\ node_features = <<>> /\ edge_features = <<>>
          /\ interacting_nodes = <<>> /\ delaunay_attempts = <<>>
          /\ gt_relations = <<>>
          /\ raised = "None"
    /\ \A k \in DOMAIN page_paths :
          (k < page_idx /\ TooFewRegions(page_paths[k])) =>
             /\ Count(skipped_pages, page_paths[k].name) =
                   Cardinality({m \in 1..(page_idx - 1) : page_paths[m] = page_paths[k]})
             /\ \A o \in DOMAIN outputs : outputs[o].page # page_paths[k].name
    /\ pc \in {"load", "done"} => Len(skipped_pages) + Len(outputs) = page_idx - 1

\* a page with one region left was skipped and the page after it was written
C11_Witness ==
    /\ Len(page_paths) = 2
    /\ page_paths[1].name = "lonely"
    /\ Len(page_paths[1].regions.TextRegion.list) = 2
    /\ skipped_pages = <<"lonely">>
    /\ Len(outputs) = 1
    /\ outputs[1].page = page_paths[2].name
    /\ page_idx = 3

\* the least and the greatest coordinate (axis 1 is x, axis 2 is y) of a point list
Least(points, axis) == SetMin({p[axis] : p \in Range(points)})

Greatest(points, axis) == SetMax({p[axis] : p \in Range(points)})

\* size and center of a point list, each over its norm
SizeOver(points, axis, norm) == Frac(Greatest(points, axis) - Least(points, axis), norm)

CenterOver(points, axis, norm) ==
    Frac(Greatest(points, axis) + Least(points, axis), 2 * norm)

\* size x, size y, center x, center y
FourOf(points, norm_x, norm_y) ==
    << Scalar(SizeOver(points, 1, norm_x)), Scalar(SizeOver(points, 2, norm_y)),
       Scalar(CenterOver(points, 1, norm_x)), Scalar(CenterOver(points, 2, norm_y)) >>

\* the sum of the widths of the blocks the sources from k on add to row r
RECURSIVE ExternalWidth(_, _)
ExternalWidth(k, r) ==
    IF k > Len(json_data) THEN 0 ELSE NodeWidth(k, r) + ExternalWidth(k + 1, r)

\* the first 15 components of row r: geometric (4), top and bottom baseline (8),
\* stroke width, text height, heading
BaseBlocksInOrder(r) ==
    LET tr == text_regions[r]
        row == node_features[r]
        nx == page_path.resolution[1]
        ny == page_path.resolution[2]
    IN  /\ Len(row) >= 15
        /\ SubSeq(row, 1, 4) = FourOf(tr.points, nx, ny)
        /\ SubSeq(row, 5, 8) = FourOf(tr.text_lines[1].baseline, nx, ny)
        /\ SubSeq(row, 9, 12) = FourOf(tr.text_lines[Len(tr.text_lines)].baseline, nx, ny)
        /\ row[13] = Scalar(get_text_region_stroke_width_feature(
                                tr, textline_stroke_widths, sw_max).feature[1])
        /\ row[14] = Scalar(get_text_region_text_height_feature(
                                tr, textline_heights, th_max).feature[1])
        /\ row[15] = Scalar(IF tr.region_type \in {"heading", "Heading"} THEN F1 ELSE F0)

\* the node features of the page were built
NodeRowsBuilt == Done("nodes") /\ node_features # <<>>

\* every source keeps to width one in its node table
NodeWidthContract ==
    \A k \in DOMAIN json_data : \A name \in DOMAIN json_data[k] :
        json_data[k][name].has_node_features =>
            /\ \A id \in DOMAIN json_data[k][name].node_features.entries :
                  WidthOne(json_data[k][name].node_features.entries[id])
            /\ json_data[k][name].node_features.hasDefault =>
                  ~json_data[k][name].node_features.default.isList

\* C12 as stated: on one page every node feature vector has the same width, 15
\* plus the widths of the external node blocks, with the 15 base components in
\* their order, for every mix of regions that hit an entry, take the default or
\* take the hardcoded scalar
C12_AllRowsSameWidth ==
    NodeRowsBuilt =>
        \A r \in DOMAIN node_features :
            /\ BaseBlocksInOrder(r)
            /\ Len(node_features[r]) = 15 + ExternalWidth(1, r)
            /\ Len(node_features[r]) = Len(node_features[1])

\* C12, amended: every node feature vector is its 15 base components in their
\* order followed by the external blocks of its own region; the vectors of a
\* page have one width, 15 plus one per source with a node table for the page,
\* if every source keeps to width one
C12_RowsSameWidthUnderContract ==
    NodeRowsBuilt =>
        \A r \in DOMAIN node_features :
            /\ BaseBlocksInOrder(r)
            /\ Len(node_features[r]) = 15 + ExternalWidth(1, r)
            /\ NodeWidthContract =>
                  /\ Len(node_features[r]) = Len(node_features[1])
                  /\ Len(node_features[r]) =
                        15 + Cardinality({k \in DOMAIN json_data :
                                            /\ page_path.name \in DOMAIN json_data[k]
                                            /\ json_data[k][page_path.name].has_node_features})

\* one region hits its entry, the other takes the source's default
C12_Witness ==
    /\ Done("return")
    /\ raised = "None"
    /\ Len(json_data) = 1
    /\ NodeWidthContract
    /\ page_path.name \in DOMAIN json_data[1]
    /\ json_data[1][page_path.name].has_node_features
    /\ json_data[1][page_path.name].node_features.hasDefault
    /\ text_regions[1].id \in DOMAIN json_data[1][page_path.name].node_features.entries
    /\ text_regions[2].id \notin DOMAIN json_data[1][page_path.name].node_features.entries
    /\ Len(node_features[1]) = 16
    /\ Len(node_features[2]) = 16

\* the sum of two floats
FracPlus(a, b) ==
    LET l == (a[2] \div GCD(a[2], b[2])) * b[2]
    IN  Frac(a[1] * (l \div a[2]) + b[1] * (l \div b[2]), l)

\* region b is region a with every point of the polygon and of the baselines
\* moved by <<dx, dy>>
IsTranslatedBy(a, b, dx, dy) ==
    /\ b.points = Translated(a.points, dx, dy)
    /\ Len(b.text_lines) = Len(a.text_lines)
    /\ \A m \in DOMAIN a.text_lines :
          b.text_lines[m].baseline = Translated(a.text_lines[m].baseline, dx, dy)

\* the feature the call that returned computes for region j
SameCallOn(j) ==
    IF returned.fn = "geometric"
    THEN get_text_region_geometric_features(text_regions[j], CallNorms[1], CallNorms[2])
    ELSE get_text_region_baseline_features(text_regions[j], CallNorms[1], CallNorms[2])

\* g is f with the sizes kept and the centers moved by dx / norm_x, dy / norm_y
ShiftedBlocks(f, g, dx, dy) ==
    /\ Len(g) = Len(f)
    /\ \A c \in DOMAIN f :
          g[c] = CASE c % 4 = 3 -> FracPlus(f[c], Frac(dx, CallNorms[1]))
                   [] c % 4 = 0 -> FracPlus(f[c], Frac(dy, CallNorms[2]))
                   [] OTHER -> f[c]

\* C13 as stated: moving all points of a region, polygon and baselines, by the
\* integers <<dx, dy>> leaves the size components of the geometric block and of
\* both baseline blocks as they are and moves every center component by
\* dx / norm_x resp. dy / norm_y
C13_TranslationShiftsCenters ==
    returned.fn \in {"geometric", "baseline"} =>
        \A j \in DOMAIN text_regions : \A dx, dy \in Offsets :
            IsTranslatedBy(text_regions[returned.i], text_regions[j], dx, dy) =>
                ShiftedBlocks(returned.feature, SameCallOn(j), dx, dy)

\* the same for regions whose coordinates stay below 2^30
C13_TranslationShiftsCentersNearOrigin ==
    (/\ returned.fn \in {"geometric", "baseline"}
     /\ \A k \in DOMAIN text_regions : \A p \in Range(text_regions[k].points) :
           p[1] < FarCoordinate /\ p[2] < FarCoordinate)
       => C13_TranslationShiftsCenters

\* the regions the page document hands to build_input_and_target
InputRegions == page_path.regions.TextRegion.list

\* the place in the input of the k-th region left
InputPlace(k) == CHOOSE m \in DOMAIN InputRegions : InputRegions[m] = text_regions[k]

\* C14: after discard_text_regions_and_lines every region left has a line with
\* text and a bounding box at least 10 wide and 10 high; every region of the
\* input with both is left (exactly 10 is kept); the regions left are in the
\* order of the input, and node i is the i-th region left
C14_DiscardKeepsProperRegions ==
    Done("discard") =>
        /\ \A k \in DOMAIN text_regions :
              /\ Survives(text_regions[k])
              /\ \E m \in DOMAIN InputRegions : InputRegions[m] = text_regions[k]
        /\ \A m \in DOMAIN InputRegions :
              Survives(InputRegions[m]) =>
                 \E k \in DOMAIN text_regions : text_regions[k] = InputRegions[m]
        /\ \A a, b \in DOMAIN text_regions : a < b => InputPlace(a) < InputPlace(b)
        /\ num_nodes # -1 => num_nodes = Len(text_regions)
        /\ NodeRowsBuilt =>
              /\ Len(node_features) = Len(text_regions)
              /\ \A k \in DOMAIN text_regions : BaseBlocksInOrder(k)

\* a too small region is gone, the region of exactly 10 by 10 after it is node 0
C14_Witness ==
    /\ Done("nodes")
    /\ Len(InputRegions) = 3
    /\ ~Survives(InputRegions[1])
    /\ InputRegions[1].text_lines # <<>>
    /\ Greatest(InputRegions[2].points, 1) - Least(InputRegions[2].points, 1) = 10
    /\ Greatest(InputRegions[2].points, 2) - Least(InputRegions[2].points, 2) = 10
    /\ text_regions = <<InputRegions[2], InputRegions[3]>>
    /\ Len(node_features) = 2

\* the last call was the line strategy on a list of one separator, and the
\* segment between the centers of the two regions hits it: the prior test on
\* its bounding box and the test on its polygon both succeed
LineCallHit ==
    /\ returned.fn = "line"
    /\ Len(separator_regions.list) = 1
    /\ PriorTest(tr_segment(text_regions[returned.i].points,
                            text_regions[returned.j].points),
                 get_bounding_box(separator_regions.list[1].points))
    /\ line_poly_intersection(tr_segment(text_regions[returned.i].points,
                                         text_regions[returned.j].points),
                              separator_regions.list[1].points)

\* height / width < 5 for the bounding box of a point list, each at least 1
RatioBelowFive(points) ==
    Max2(Greatest(points, 2) - Least(points, 2), 1)
        < 5 * Max2(Greatest(points, 1) - Least(points, 1), 1)

\* C15 as stated: on a hit the line strategy sets only the horizontal flag for
\* the tag 'horizontal' and only the vertical flag for the tag 'vertical',
\* whatever the aspect ratio; the ratio rule decides only for an unset tag
C15_LineFlagsFollowTag ==
    LineCallHit =>
        returned.feature =
            CASE separator_regions.list[1].orientation = "horizontal" -> <<F1, F0>>
              [] separator_regions.list[1].orientation = "vertical" -> <<F0, F1>>
              [] OTHER -> IF RatioBelowFive(separator_regions.list[1].points)
                          THEN <<F1, F0>> ELSE <<F0, F1>>

\* what the line strategy does: the tag 'horizontal' is followed, every other
\* separator, tagged 'vertical' or not tagged, goes by its ratio
C15_LineFlagsFollowHorizontalTagOrRatio ==
    LineCallHit =>
        returned.feature =
            IF \/ separator_regions.list[1].orientation = "horizontal"
               \/ RatioBelowFive(separator_regions.list[1].points)
            THEN <<F1, F0>> ELSE <<F0, F1>>

\* the calls of the bb strategy on a list of one separator that the state shows:
\* the point lists of the two regions, the separator and the two flags
BBCases ==
    (IF returned.fn = "bb" /\ Len(separator_regions.list) = 1
     THEN {[a |-> text_regions[returned.i].points, b |-> text_regions[returned.j].points,
            s |-> separator_regions.list[1],
            h |-> returned.feature[1] = F1, v |-> returned.feature[2] = F1]}
     ELSE {})
      \cup
    (IF /\ Done("edges") /\ raised = "None" /\ separators = "bb"
        /\ Len(separator_regions.list) = 1
     THEN {[a |-> text_regions[interacting_nodes[e][1] + 1].points,
            b |-> text_regions[interacting_nodes[e][2] + 1].points,
            s |-> separator_regions.list[1],
            h |-> edge_features[e][1] = Scalar(F1),
            v |-> edge_features[e][2] = Scalar(F1)] : e \in DOMAIN edge_features}
     ELSE {})

\* the separator counts as vertical: by its tag, without one by its ratio
CountsAsVertical(s) ==
    \/ s.orientation = "vertical"
    \/ s.orientation = "None" /\ ~RatioBelowFive(s.points)

\* the closed intervals [lo1, hi1] and [lo2, hi2] have a point in common
Overlap(lo1, hi1, lo2, hi2) == lo1 <= hi2 /\ lo2 <= hi1

\* at least one of the regions a, b overlaps the separator in y
SomeYOverlap(a, b, sp) ==
    \/ Overlap(Least(a, 2), Greatest(a, 2), Least(sp, 2), Greatest(sp, 2))
    \/ Overlap(Least(b, 2), Greatest(b, 2), Least(sp, 2), Greatest(sp, 2))

\* the separator's horizontal midpoint strictly between the x-ranges of a and b
MidpointStrictlyBetween(a, b, sp) ==
    /\ 2 * Greatest(a, 1) < Least(sp, 1) + Greatest(sp, 1)
    /\ Least(sp, 1) + Greatest(sp, 1) < 2 * Least(b, 1)

\* the same, the ends of the x-ranges included
MidpointBetween(a, b, sp) ==
    /\ 2 * Greatest(a, 1) <= Least(sp, 1) + Greatest(sp, 1)
    /\ Least(sp, 1) + Greatest(sp, 1) <= 2 * Least(b, 1)

\* C16 as stated: is_vertically_separated is true exactly if the separator's
\* horizontal midpoint lies strictly between the x-ranges of the two regions, in
\* either order, and at least one region overlaps the separator in y
C16_VerticalIffStrictlyBetween ==
    \A c \in BBCases :
        CountsAsVertical(c.s) =>
            (c.v <=> /\ \/ MidpointStrictlyBetween(c.a, c.b, c.s.points)
                        \/ MidpointStrictlyBetween(c.b, c.a, c.s.points)
                     /\ SomeYOverlap(c.a, c.b, c.s.points))

\* C16, amended: the same with the ends included: max_x of one region <=
\* midpoint <= min_x of the other, and a y-range that touches counts as overlap
C16_VerticalIffBetween ==
    \A c \in BBCases :
        CountsAsVertical(c.s) =>
            (c.v <=> /\ \/ MidpointBetween(c.a, c.b, c.s.points)
                        \/ MidpointBetween(c.b, c.a, c.s.points)
                     /\ SomeYOverlap(c.a, c.b, c.s.points))

\* the midpoint is on the right edge of one region and on the left edge of the
\* other, and the call says vertically separated
C16_Witness ==
    \E c \in BBCases :
        /\ CountsAsVertical(c.s)
        /\ c.v
        /\ 2 * Greatest(c.a, 1) = Least(c.s.points, 1) + Greatest(c.s.points, 1)
        /\ 2 * Least(c.b, 1) = Least(c.s.points, 1) + Greatest(c.s.points, 1)

\* region a lies entirely above the separator and region b entirely below it
SeparatorStrictlyBetweenInY(a, b, sp) ==
    /\ Greatest(a, 2) < Least(sp, 2)
    /\ Greatest(sp, 2) < Least(b, 2)

\* both regions end where the separator begins or before, or both begin where
\* it ends or after
BothOnOneSide(a, b, sp) ==
    \/ Greatest(a, 1) <= Least(sp, 1) /\ Greatest(b, 1) <= Least(sp, 1)
    \/ Least(a, 1) >= Greatest(sp, 1) /\ Least(b, 1) >= Greatest(sp, 1)

\* C17 as stated: is_horizontally_separated is true exactly if the separator's
\* y-range lies strictly between the y-ranges of the two regions, one region
\* entirely above the separator and the other entirely below it, and the
\* regions are not both entirely left or both entirely right of the separator
C17_HorizontalIffStrictlyBetween ==
    \A c \in BBCases :
        ~CountsAsVertical(c.s) =>
            (c.h <=> /\ \/ SeparatorStrictlyBetweenInY(c.a, c.b, c.s.points)
                        \/ SeparatorStrictlyBetweenInY(c.b, c.a, c.s.points)
                     /\ ~BothOnOneSide(c.a, c.b, c.s.points))

\* what is_horizontally_separated tests: one region begins at the separator's
\* upper edge or above it, the other ends at its lower edge or below it
C17_HorizontalIffTopAndBottomEdges ==
    \A c \in BBCases :
        ~CountsAsVertical(c.s) =>
            (c.h <=> /\ \/ /\ Least(c.a, 2) <= Least(c.s.points, 2)
                           /\ Greatest(c.s.points, 2) <= Greatest(c.b, 2)
                        \/ /\ Least(c.b, 2) <= Least(c.s.points, 2)
                           /\ Greatest(c.s.points, 2) <= Greatest(c.a, 2)
                     /\ ~BothOnOneSide(c.a, c.b, c.s.points))

\* everything but the value a direct call returns
all_but_returned == <<batch_vars, run_vars, page_vars, pc>>

\* C18 as stated: a call of either separator strategy leaves the point lists of
\* both text regions and of every separator as they are, same points and same
\* length, and changes no other state
C18_SeparatorStrategiesArePure ==
    [][(CallSeparatorLine \/ CallSeparatorBB) => UNCHANGED all_but_returned]_vars

\* the bb strategy alone leaves all of it as it is
C18_BBStrategyIsPure ==
    [][CallSeparatorBB => UNCHANGED all_but_returned]_vars

\* the line strategy leaves the text regions as they are and changes a
\* separator's point list only by appending its first point to it
C18_LineStrategyOnlyCloses ==
    [][CallSeparatorLine =>
          /\ UNCHANGED <<batch_vars, run_vars, pc, text_regions>>
          /\ Len(separator_regions.list') = Len(separator_regions.list)
          /\ \A k \in DOMAIN separator_regions.list :
                separator_regions.list'[k].points
                    \in {separator_regions.list[k].points,
                         Append(separator_regions.list[k].points,
                                separator_regions.list[k].points[1])}]_vars

\* the page's topology was built by delaunay_edges
DelaunayDone ==
    /\ Done("topology")
    /\ interaction = "delaunay"
    /\ num_nodes >= 4
    /\ IsMatrix(node_features)

\* the centers of the regions' bounding boxes, doubled, and the same rounded
CenterPositions ==
    [k \in DOMAIN text_regions |->
        <<Least(text_regions[k].points, 1) + Greatest(text_regions[k].points, 1),
          Least(text_regions[k].points, 2) + Greatest(text_regions[k].points, 2)>>]

RoundedPositions ==
    [k \in DOMAIN text_regions |->
        <<round_base(CenterPositions[k][1]), round_base(CenterPositions[k][2])>>]

\* all positions on one line: the triangulation raises
OnOneLine(positions) ==
    \A i, j, k \in DOMAIN positions :
        (positions[j][1] - positions[i][1]) * (positions[k][2] - positions[i][2])
            = (positions[j][2] - positions[i][2]) * (positions[k][1] - positions[i][1])

\* the pairs <<v, neighbour>> of a triangulation's neighbour lists
AdjacencyPairs(neighbors) ==
    UNION {{<<v - 1, n>> : n \in Range(neighbors[v])} : v \in DOMAIN neighbors}

\* C19: the triangulation is first attempted on the positions rounded to
\* multiples of 50; only if that raises it is attempted once more, on the
\* unrounded positions, and the edge list comes from this second triangulation;
\* if the second attempt raises too the page fails with no further attempt and
\* no edge list
C19_DelaunayTwoAttempts ==
    DelaunayDone =>
        /\ \A k \in DOMAIN RoundedPositions : \A c \in 1..2 :
              /\ RoundedPositions[k][c] % 50 = 0
              /\ Abs(2 * RoundedPositions[k][c] - CenterPositions[k][c]) <= 50
        /\ delaunay_attempts =
              IF OnOneLine(RoundedPositions) THEN <<"smooth", "raw">> ELSE <<"smooth">>
        /\ ~OnOneLine(RoundedPositions) =>
              /\ raised = "None"
              /\ Range(interacting_nodes) = AdjacencyPairs(page_path.tri.smooth)
        /\ (OnOneLine(RoundedPositions) /\ ~OnOneLine(CenterPositions)) =>
              /\ raised = "None"
              /\ Range(interacting_nodes) = AdjacencyPairs(page_path.tri.raw)
        /\ (OnOneLine(RoundedPositions) /\ OnOneLine(CenterPositions)) =>
              /\ raised = "QhullError"
              /\ pc = "raised"
              /\ interacting_nodes = <<>>

\* the rounded positions are on one line, the unrounded are not, and the edges
\* are those of the second triangulation, which differs from the first
C19_Witness ==
    /\ DelaunayDone
    /\ delaunay_attempts = <<"smooth", "raw">>
    /\ raised = "None"
    /\ AdjacencyPairs(page_path.tri.raw) # AdjacencyPairs(page_path.tri.smooth)
    /\ Range(interacting_nodes) = AdjacencyPairs(page_path.tri.raw)

\* the triangulation the edge list of the page was derived from
UsedTriangulation ==
    IF delaunay_attempts = <<"smooth">> THEN page_path.tri.smooth ELSE page_path.tri.raw

\* C20: for every vertex adjacency of the triangulation delaunay_edges emits
\* both directions, <<i, j>> is in the edge list exactly if <<j, i>> is; no pair
\* <<i, i>> is emitted; every index is in 0..N-1; the pairs are grouped by
\* ascending source index
C20_DelaunayEdgesBothDirections ==
    (DelaunayDone /\ raised = "None") =>
        /\ \A v \in DOMAIN UsedTriangulation : \A n \in Range(UsedTriangulation[v]) :
              /\ Count(interacting_nodes, <<v - 1, n>>) = 1
              /\ Count(interacting_nodes, <<n, v - 1>>) = 1
        /\ \A e \in DOMAIN interacting_nodes :
              /\ Count(interacting_nodes,
                       <<interacting_nodes[e][2], interacting_nodes[e][1]>>) = 1
              /\ interacting_nodes[e][1] # interacting_nodes[e][2]
              /\ interacting_nodes[e][1] \in 0..(num_nodes - 1)
              /\ interacting_nodes[e][2] \in 0..(num_nodes - 1)
              /\ interacting_nodes[e][2] \in Range(UsedTriangulation[interacting_nodes[e][1] + 1])
        /\ \A a, b \in DOMAIN interacting_nodes :
              a < b => interacting_nodes[a][1] <= interacting_nodes[b][1]

\* a fan around vertex 0: <<0, 3>> and <<3, 0>> are edges, <<1, 3>> and
\* <<3, 1>> are not
C20_Witness ==
    /\ DelaunayDone
    /\ raised = "None"
    /\ num_nodes = 4
    /\ Count(interacting_nodes, <<0, 3>>) = 1
    /\ Count(interacting_nodes, <<3, 0>>) = 1
    /\ Count(interacting_nodes, <<1, 3>>) = 0
    /\ Count(interacting_nodes, <<3, 1>>) = 0
    /\ interacting_nodes[1][1] = 0
    /\ interacting_nodes[Len(interacting_nodes)][1] = 3

\* what article_dict assigns to the region at node index i
AssignedTo(i) == page_path.article_dict[text_regions[i + 1].id]

\* the assignment is a list of more than one id
MultiId(assigned) == assigned.isList /\ Len(assigned.ids) > 1

\* C21: a region whose assignment is a list of more than one id takes the first
\* id of the list as its effective id (it is related to the regions assigned
\* that id alone, and to no region assigned another id alone), the ambiguous
\* counter goes up by one for it and nothing is raised; at the end the counter
\* is the number of surviving regions with such an assignment
C21_MultiIdTakesFirstAndIsCounted ==
    Done("gt") =>
        /\ num_tr_ambiguous =
              Cardinality({i \in 0..(Len(text_regions) - 1) : MultiId(AssignedTo(i))})
        /\ \A i, j \in 0..(Len(text_regions) - 1) :
              (MultiId(AssignedTo(i)) /\ ~AssignedTo(j).isList) =>
                 Count(gt_relations, <<1, i, j>>)
                   = IF AssignedTo(j).ids[1] = AssignedTo(i).ids[1] THEN 1 ELSE 0
        /\ \A i, j \in 0..(Len(text_regions) - 1) :
              (MultiId(AssignedTo(i)) /\ MultiId(AssignedTo(j))) =>
                 Count(gt_relations, <<1, i, j>>)
                   = IF AssignedTo(j).ids[1] = AssignedTo(i).ids[1] THEN 1 ELSE 0
        /\ steps[Len(steps)] = "gt" => (pc = "return" /\ raised = "None")

\* one region with two ids, related to the region with its first id; a list of
\* one id is not counted
C21_Witness ==
    /\ Done("gt")
    /\ num_nodes = 3
    /\ AssignedTo(0) = IdList(<<"a2", "a1">>)
    /\ AssignedTo(1) = OneId("a2")
    /\ AssignedTo(2) = IdList(<<"a1">>)
    /\ num_tr_ambiguous = 1
    /\ Count(gt_relations, <<1, 0, 1>>) = 1

\* the page has one external source, whose table of the kind (node or edge)
\* holds no entry at all and a default: every lookup takes the second tier
OnlySource == json_data[1][page_path.name]

NodesTakeDefault ==
    /\ InPage /\ Len(json_data) = 1 /\ page_path.name \in DOMAIN json_data[1]
    /\ OnlySource.has_node_features
    /\ DOMAIN OnlySource.node_features.entries = {}
    /\ OnlySource.node_features.hasDefault

EdgesTakeDefault ==
    /\ InPage /\ Len(json_data) = 1 /\ page_path.name \in DOMAIN json_data[1]
    /\ OnlySource.has_edge_features
    /\ DOMAIN OnlySource.edge_features.entries = {}
    /\ OnlySource.edge_features.hasDefault

\* the part of a row after its first base components
After(row, base) == SubSeq(row, base + 1, Len(row))

\* C22 as stated: where the entry is missing and the table has a default, the
\* block is the values of the default, flat and as wide as the default, without
\* an error, in the node rows and in the edge rows alike
C22_DefaultBlockIsFlat ==
    /\ NodesTakeDefault =>
          /\ raised = "None"
          /\ NodeRowsBuilt =>
                \A r \in DOMAIN node_features :
                    After(node_features[r], 15) = Scalars(OnlySource.node_features.default.vals)
    /\ EdgesTakeDefault =>
          /\ raised = "None"
          /\ Done("edges") =>
                \A e \in DOMAIN edge_features :
                    After(edge_features[e], 2) = Scalars(OnlySource.edge_features.default.vals)

\* what the two chains do with a default: the node chain appends it as one
\* element, a list staying a list inside the row, which then is no matrix row;
\* the edge chain extends the row by it, which raises for a number
C22_DefaultWrappedInNodeRowsFlatInEdgeRows ==
    /\ NodesTakeDefault =>
          /\ raised \in {"None", "ValueError"}
          /\ raised = "ValueError" <=>
                (Done("return") /\ OnlySource.node_features.default.isList)
          /\ NodeRowsBuilt =>
                \A r \in DOMAIN node_features :
                    After(node_features[r], 15) =
                        IF OnlySource.node_features.default.isList
                        THEN <<Nested(OnlySource.node_features.default.vals)>>
                        ELSE <<Scalar(OnlySource.node_features.default.vals[1])>>
    /\ EdgesTakeDefault =>
          /\ raised \in {"None", "TypeError"}
          /\ raised = "TypeError" <=>
                (Done("edges") /\ ~OnlySource.edge_features.default.isList)
          /\ (Done("edges") /\ raised = "None") =>
                \A e \in DOMAIN edge_features :
                    After(edge_features[e], 2) = Scalars(OnlySource.edge_features.default.vals)

\* the steps of build_input_and_target in the order of lines 666-857
StepOrder ==
    <<"load", "discard", "stroke", "nodes", "topology", "edges", "visual", "gt", "return">>

\* the same steps with the ground truth placed before the visual regions
StepOrderGroundTruthFirst ==
    <<"load", "discard", "stroke", "nodes", "topology", "edges", "gt", "visual", "return">>

\* list s is the beginning of list t
IsPrefix(s, t) == Len(s) <= Len(t) /\ \A k \in DOMAIN s : s[k] = t[k]

\* no visual region was built for page_path
NoVisualYet == visual_regions_nodes = <<>> /\ visual_regions_edges = NoVisual

\* the visual regions of page_path are built, for every node and every edge
VisualBuilt ==
    /\ Len(visual_regions_nodes) = num_nodes
    /\ Len(visual_regions_edges.num_points) = Len(interacting_nodes)

\* what each step finds when it starts: the results of the steps before it, and
\* nothing of the steps after it
StepFindsEarlierResults ==
    /\ pc = "stroke" => (num_nodes = Len(text_regions) /\ node_features = <<>>)
    /\ pc = "nodes" => node_features = <<>>
    /\ pc = "topology" =>
          (Len(node_features) = num_nodes /\ interacting_nodes = <<>> /\ edge_features = <<>>)
    /\ pc = "edges" => (Len(node_features) = num_nodes /\ edge_features = <<>>)
    /\ pc \in {"discard", "stroke", "nodes", "topology", "edges", "visual"} =>
          (NoVisualYet /\ gt_relations = <<>>)
    /\ pc = "visual" => Len(edge_features) = Len(interacting_nodes)

\* C23 as stated: within one page the steps are region discard, node features,
\* topology, edge features, ground truth and then, only if requested, the visual
\* regions, each step starting when the one before it has finished; so the visual
\* regions are built on a page that has its ground truth already
C23_GroundTruthThenVisualRegions ==
    InPage =>
        /\ IsPrefix(steps, StepOrderGroundTruthFirst)
        /\ StepFindsEarlierResults
        /\ pc = "visual" => gt_relations # <<>>
        /\ pc = "gt" => NoVisualYet
        /\ ~visual_regions => NoVisualYet

\* C23, amended: the steps are region discard, node features, topology, edge
\* features, then (only if requested) the visual regions, and the ground truth
\* last; each step starts on the results of all steps before it and before any
\* later step has produced anything
C23_VisualRegionsThenGroundTruth ==
    InPage =>
        /\ IsPrefix(steps, StepOrder)
        /\ StepFindsEarlierResults
        /\ pc = "gt" => (gt_relations = <<>> /\ (visual_regions => VisualBuilt))
        /\ pc = "return" => (gt_relations # <<>> /\ (visual_regions => VisualBuilt))
        /\ ~visual_regions => NoVisualYet

\* a page with visual regions requested, its visual regions built and its ground
\* truth about to be built
C23_Witness ==
    /\ pc = "gt"
    /\ visual_regions
    /\ VisualBuilt
    /\ Len(interacting_nodes) > 0
    /\ gt_relations = <<>>
    /\ steps = SubSeq(StepOrder, 1, 7)

\* the edge visual regions of page_path are built on request
EdgeVisualsBuilt == Done("visual") /\ visual_regions

\* the convex hull of edge k (from 1) of page_path
EdgeHull(k) ==
    get_edge_visual_regions(text_regions[interacting_nodes[k][1] + 1],
                            text_regions[interacting_nodes[k][2] + 1])

\* hull is a convex polygon on points of the two regions of edge k that leaves no
\* point of them outside, turning left at each of its points
IsHullOfEdge(hull, k) ==
    LET pts == Range(text_regions[interacting_nodes[k][1] + 1].points) \cup
               Range(text_regions[interacting_nodes[k][2] + 1].points)
        next(c) == hull[(c % Len(hull)) + 1]
    IN  /\ Range(hull) \subseteq pts
        /\ \A c \in DOMAIN hull :
              /\ \A p \in pts : Cross(hull[c], next(c), p) >= 0
              /\ Cross(hull[c], next(c), next(c + 1)) > 0

\* the largest point count over the edges of page_path
MaxPoints == SetMax(Range(visual_regions_edges.num_points))

\* C24: with visual regions requested every edge has exactly as many slots as the
\* largest hull of the page has points; the first num_points[k] slots of edge k
\* hold its convex hull in order, every later slot is (0,0), num_points[k] is the
\* point count of the hull, and some edge has no padding at all
C24_EdgeVisualRegionsPadded ==
    EdgeVisualsBuilt =>
        /\ Len(visual_regions_edges.array) = Len(interacting_nodes)
        /\ Len(visual_regions_edges.num_points) = Len(interacting_nodes)
        /\ \A k \in DOMAIN interacting_nodes :
              LET row == visual_regions_edges.array[k]
                  n == visual_regions_edges.num_points[k]
              IN  /\ n = Len(EdgeHull(k))
                  /\ IsHullOfEdge(EdgeHull(k), k)
                  /\ Len(row) = MaxPoints
                  /\ SubSeq(row, 1, n) = EdgeHull(k)
                  /\ \A c \in (n + 1)..Len(row) : row[c] = <<0, 0>>
        /\ \E k \in DOMAIN interacting_nodes :
              visual_regions_edges.num_points[k] = Len(visual_regions_edges.array[k])

\* a page on which one edge is padded and another is not
C24_Witness ==
    /\ EdgeVisualsBuilt
    /\ \E k, l \in DOMAIN interacting_nodes :
          /\ visual_regions_edges.num_points[k] = 4
          /\ visual_regions_edges.num_points[l] = 6
          /\ Len(visual_regions_edges.array[k]) = 6
          /\ visual_regions_edges.array[k][5] = <<0, 0>>
          /\ visual_regions_edges.array[l][6] # <<0, 0>>

\* the lines the page document hands to build_input_and_target
InputLines == page_path.text_lines

\* the line ids of a region
LineIds(tr) == {tr.text_lines[m].id : m \in DOMAIN tr.text_lines}

\* the ids of the lines of the input that belong to a region that is left
LinesOfRegionsLeft == UNION {LineIds(text_regions[k]) : k \in DOMAIN text_regions}

\* the ids of the lines of the input regions that are gone and satisfy gone_for
LinesOfRegionsGone(gone_for(_)) ==
    UNION {LineIds(InputRegions[m]) :
             m \in {m \in DOMAIN InputRegions : ~Survives(InputRegions[m]) /\ gone_for(InputRegions[m])}}

\* the region has a line with text
HasText(tr) == \E m \in DOMAIN tr.text_lines : tr.text_lines[m].text # ""

\* the lines of the input, in order, whose id is in ids
LinesAmong(ids) == SelectSeq(InputLines, LAMBDA l : l.id \in ids)

\* C25 as stated: the line list returned by the discard holds no line of a
\* discarded region, be it discarded for having no text or for being too small,
\* and holds every line of the surviving regions
C25_DiscardRemovesLinesOfDiscardedRegions ==
    Done("discard") =>
        /\ text_lines = LinesAmong(LinesOfRegionsLeft)
        /\ \A k \in DOMAIN text_lines :
              text_lines[k].id \notin LinesOfRegionsGone(LAMBDA tr : TRUE)

\* what the code does: the lines of the regions discarded as too small are
\* removed; the lines of the regions discarded for having no text stay in the
\* list, with the lines of the surviving regions, in the order of the input
C25_DiscardRemovesLinesOfTooSmallRegionsOnly ==
    Done("discard") =>
        /\ text_lines = LinesAmong(LinesOfRegionsLeft \cup
                                   LinesOfRegionsGone(LAMBDA tr : ~HasText(tr)))
        /\ \A k \in DOMAIN text_lines :
              text_lines[k].id \notin LinesOfRegionsGone(HasText)

\* the line of a region discarded for having no text has the largest stroke
\* width of the page, which scales the stroke width feature of the regions left
LineOfDiscardedRegionScalesFeatures ==
    /\ Done("stroke")
    /\ raised = "None"
    /\ \E k \in DOMAIN text_lines :
          /\ text_lines[k].id \in LinesOfRegionsGone(LAMBDA tr : TRUE)
          /\ textline_stroke_widths[text_lines[k].id] = sw_max
          /\ \A l \in DOMAIN text_lines :
                text_lines[l].id \in LinesOfRegionsLeft =>
                   textline_stroke_widths[text_lines[l].id] # sw_max

\* the row of an edge from region a to region b of page_path, computed on the
\* separator list as the page document gave it
ExpectedEdgeRow(a, b) ==
    LET loaded == LoadedSeparatorRegions(page_path)
        sep == IF Truthy(loaded)
               THEN Classify(a, b, loaded.list, separators).feature
               ELSE <<F0, F0>>
    IN  Scalars(sep)
          \o SimilarityBlockOf(EdgeLoopCfg.tb_sim_dict, a.id, b.id).block
          \o EdgeExternalBlocks(json_data, page_path.name, a.id, b.id, 1).block

\* the edge features of page_path are built
EdgeRowsBuilt == Done("edges") /\ raised = "None"

\* C26: the edge feature matrix has one row per interacting pair, and row k is
\* computed from the regions interacting_nodes[k][0] and interacting_nodes[k][1]
\* in that order, for 'fully' and 'delaunay' and for 'line' and 'bb'
C26_EdgeRowsFollowInteractingNodes ==
    EdgeRowsBuilt =>
        /\ Len(edge_features) = Len(interacting_nodes)
        /\ \A k \in DOMAIN interacting_nodes :
              edge_features[k] = ExpectedEdgeRow(text_regions[interacting_nodes[k][1] + 1],
                                                 text_regions[interacting_nodes[k][2] + 1])
        /\ pc = "write" /\ num_nodes # -1 =>
              out_dict.num_interacting_nodes = Len(out_dict.edge_features)

\* a triangulated page with a bar between its columns, the line classifier, the
\* edges not in the order of 'fully', and a row that tells its two regions apart
C26_Witness ==
    /\ EdgeRowsBuilt
    /\ interaction = "delaunay"
    /\ separators = "line"
    /\ num_nodes = 4
    /\ interacting_nodes[1] = <<0, 3>>
    /\ edge_features[1] = <<Scalar(F0), Scalar(F0), Scalar(Frac(14, 100))>>
    /\ \E k \in DOMAIN interacting_nodes :
          /\ interacting_nodes[k] = <<1, 0>>
          /\ edge_features[k] = <<Scalar(F0), Scalar(F1), Scalar(Frac(21, 100))>>

\* the segment between the centers of the two regions of the direct call
CallSegment ==
    tr_segment(text_regions[returned.i].points, text_regions[returned.j].points)

\* the line strategy was called on a list of one separator
LineCallOnOne == returned.fn = "line" /\ Len(separator_regions.list) = 1

\* the segment of the call meets the polygon of the separator
MeetsPolygon == line_poly_intersection(CallSegment, separator_regions.list[1].points)

\* the prior test of the call succeeds
PassesPriorTest ==
    PriorTest(CallSegment, get_bounding_box(separator_regions.list[1].points))

\* C27 as stated: the prior test on the bounding box is conservative: whenever
\* the segment between the centers meets the separator's polygon the prior test
\* succeeds too, so the line strategy answers as the test on the polygon alone
C27_PriorTestIsConservative ==
    LineCallOnOne =>
        /\ MeetsPolygon => PassesPriorTest
        /\ (returned.feature # <<F0, F0>>) <=> MeetsPolygon

\* what the code does: a flag is set exactly if both tests succeed
C27_HitNeedsBothTests ==
    LineCallOnOne =>
        ((returned.feature # <<F0, F0>>) <=> (PassesPriorTest /\ MeetsPolygon))

\* a call whose segment meets the separator's polygon and fails the prior test
PolygonMetPriorTestFailed ==
    /\ LineCallOnOne
    /\ MeetsPolygon
    /\ ~PassesPriorTest
    /\ returned.feature = <<F0, F0>>

\* the lists of up to three separators taken from list S, in every order and
\* with repetitions
ScanLists(S) == UNION {[1..m -> Range(S)] : m \in 0..3}

\* per flag, whether some separator of list L alone sets it for (a, b)
FlagDisjunction(a, b, L, strategy) ==
    <<Float(\E k \in DOMAIN L : Classify(a, b, <<L[k]>>, strategy).feature[1] = F1),
      Float(\E k \in DOMAIN L : Classify(a, b, <<L[k]>>, strategy).feature[2] = F1)>>

\* a flag that is set when the scan of L is at separator k stays set to the end
ScanKeepsFlags(a, b, L) ==
    \A k \in 1..(Len(L) + 1) : \A h, v \in BOOLEAN :
        LET line == LineScan(tr_segment(a.points, b.points), L, k, h, v)
            bb == BBScan(get_bounding_box(a.points), get_bounding_box(b.points), L, k, h, v)
        IN  /\ h => (line.h /\ bb[1])
            /\ v => (line.v /\ bb[2])

\* C28: for both strategies a flag once set stays set during the scan, and the
\* 2-vector returned is the per-flag disjunction over all separators of the
\* list; so the order of the list and the early stop do not change the result
C28_FlagsAreDisjunctionOverSeparators ==
    /\ (InPage /\ pc = "visual") =>
          \A L \in ScanLists(page_path.regions.SeparatorRegion.list) :
              \A i, j \in DOMAIN text_regions : \A strategy \in {"line", "bb"} :
                  /\ Classify(text_regions[i], text_regions[j], L, strategy).feature
                       = FlagDisjunction(text_regions[i], text_regions[j], L, strategy)
                  /\ Classify(text_regions[i], text_regions[j], Reverse(L), strategy).feature
                       = Classify(text_regions[i], text_regions[j], L, strategy).feature
                  /\ ScanKeepsFlags(text_regions[i], text_regions[j], L)
    /\ (InPage /\ pc = "visual" /\ Truthy(LoadedSeparatorRegions(page_path))) =>
          \A e \in DOMAIN edge_features :
              SubSeq(edge_features[e], 1, 2) =
                  Scalars(FlagDisjunction(text_regions[interacting_nodes[e][1] + 1],
                                          text_regions[interacting_nodes[e][2] + 1],
                                          page_path.regions.SeparatorRegion.list,
                                          separators))
    /\ returned.fn \in {"line", "bb"} =>
          /\ returned.feature = FlagDisjunction(text_regions[returned.i], text_regions[returned.j],
                                                separator_regions.list, returned.fn)
          /\ ScanKeepsFlags(text_regions[returned.i], text_regions[returned.j],
                            separator_regions.list)

\* a page with two separators of which one sets the horizontal and the other the
\* vertical flag of an edge; a third separator after them is not looked at
C28_Witness ==
    /\ InPage
    /\ pc = "visual"
    /\ separators = "bb"
    /\ Len(separator_regions.list) = 2
    /\ \E e \in DOMAIN edge_features :
          /\ edge_features[e] = <<Scalar(F1), Scalar(F1)>>
          /\ \A k \in 1..2 :
                Classify(text_regions[interacting_nodes[e][1] + 1],
                         text_regions[interacting_nodes[e][2] + 1],
                         <<separator_regions.list[k]>>, "bb").feature # <<F1, F1>>
          /\ Classify(text_regions[interacting_nodes[e][1] + 1],
                      text_regions[interacting_nodes[e][2] + 1],
                      <<separator_regions.list[1]>>, "line").feature
               # Classify(text_regions[interacting_nodes[e][1] + 1],
                          text_regions[interacting_nodes[e][2] + 1],
                          <<separator_regions.list[2]>>, "line").feature

\* the pairs the ground truth of page_path relates
GtPairs == {<<gt_relations[k][2], gt_relations[k][3]>> : k \in DOMAIN gt_relations}

\* the surviving nodes of page_path
Nodes == 0..(num_nodes - 1)

\* C29: the ground-truth relation is an equivalence relation on the surviving
\* nodes (reflexive, symmetric, transitive); its triples are (1, i, j), each pair
\* once, in row-major order of (i, j); and it is a function of the regions and
\* their article ids alone, the same for 'fully' and for 'delaunay'
C29_GroundTruthIsEquivalence ==
    Done("gt") =>
        /\ GtPairs \subseteq Nodes \X Nodes
        /\ \A i \in Nodes : <<i, i>> \in GtPairs
        /\ \A i, j \in Nodes : <<i, j>> \in GtPairs => <<j, i>> \in GtPairs
        /\ \A i, j, k \in Nodes :
              (<<i, j>> \in GtPairs /\ <<j, k>> \in GtPairs) => <<i, k>> \in GtPairs
        /\ \A k \in DOMAIN gt_relations : gt_relations[k][1] = 1
        /\ \A k, l \in DOMAIN gt_relations :
              k < l => LexLess(<<gt_relations[k][2], gt_relations[k][3]>>,
                               <<gt_relations[l][2], gt_relations[l][3]>>)
        /\ GtPairs = {p \in Nodes \X Nodes :
                        EffectiveIdOfNode(p[1]) = EffectiveIdOfNode(p[2])}

\* a triangulated page whose edges are not those of 'fully' and whose four
\* regions fall into two classes of two
C29_Witness ==
    /\ Done("gt")
    /\ interaction = "delaunay"
    /\ num_nodes = 4
    /\ Len(interacting_nodes) < 12
    /\ gt_relations = << <<1, 0, 0>>, <<1, 0, 2>>, <<1, 1, 1>>, <<1, 1, 3>>,
                         <<1, 2, 0>>, <<1, 2, 2>>, <<1, 3, 1>>, <<1, 3, 3>> >>

\* the first id of the assignment of the region at node index i
FirstId(i) == AssignedTo(i).ids[1]

\* the region at node index i is assigned a list of one id
OneIdList(i) == AssignedTo(i).isList /\ Len(AssignedTo(i).ids) = 1

\* C30 as stated: the effective ids are normalized before they are compared: the
\* single id A, the one-element list [A] and a list of several ids that starts
\* with A all count as A, so two regions are related, in both directions,
\* exactly if their assignments start with the same id
C30_EffectiveIdsNormalized ==
    Done("gt") =>
        \A i, j \in Nodes :
            (FirstId(i) = FirstId(j)) <=> (<<i, j>> \in GtPairs /\ <<j, i>> \in GtPairs)

\* what the code does: the first id of a list of several ids is compared as a
\* single id, a list of one id is compared as a list: it is related to the lists
\* of the same one id and to nothing else
C30_OneIdListsComparedAsLists ==
    Done("gt") =>
        \A i, j \in Nodes :
            (FirstId(i) = FirstId(j) /\ (OneIdList(i) <=> OneIdList(j)))
                <=> (<<i, j>> \in GtPairs /\ <<j, i>> \in GtPairs)

\* a region assigned ['a1'] is related to itself only, next to regions assigned
\* 'a1' and ['a1', 'a2'] that are related to each other
OneIdListKeptApart ==
    /\ Done("gt")
    /\ num_nodes = 3
    /\ AssignedTo(0) = IdList(<<"a1">>)
    /\ AssignedTo(1) = OneId("a1")
    /\ AssignedTo(2) = IdList(<<"a1", "a2">>)
    /\ gt_relations = << <<1, 0, 0>>, <<1, 1, 1>>, <<1, 1, 2>>, <<1, 2, 1>>, <<1, 2, 2>> >>

=============================================================================
